---- MODULE Spec2Model ----
(***************************************************************************)
(* A model of package order (github.com/posener/order): the comparison     *)
(* function list Fns (fn.go), its construction by By and Reversed, the     *)
(* type descriptor T and the slice view of internal/reflectutil, the       *)
(* select-k algorithm (select.go), the slice algorithms Sort, Search,      *)
(* MinMax and IsSorted (order.go) and the tests of a Condition             *)
(* (condition.go).                                                         *)
(*                                                                         *)
(* Slices are modelled as TLA+ sequences; the Go index i is position i+1.  *)
(***************************************************************************)
EXTENDS Integers, Sequences, FiniteSets, TLC

\* ------------------------------------------------------------------ bounds
\* Longest slice handed to an operation.
MaxLen == 6
\* Width of the machine word (Go's int) in the model.
IntBits == 8
\* Longest function list handed to By.
MaxFns == 2
\* Most calls of Reversed on one function list.
MaxRev == 2
\* Most pointers in front of a type handed to the package.
MaxPtr == 2
\* Most narrowings (Slice, Slice3) of one slice view.
MaxChain == 3
\* Length of the long slices handed to Select.
LongLen == 30

\* The group size of the median-of-medians pivot.
size == 5

\* The elements slices are made of: three records of two keys (see NameOf, AgeOf).
Vals == {0, 1, 2}

VARIABLES
    slice,      \* the caller's slice (the backing storage all views share)
    input,      \* the slice as it was when the operation was called
    fns,        \* the comparison function list (Fns) the operation is called on
    oracle,     \* what a comparison function that follows no order returns next
    op,         \* the operation that was called, "" before the call
    pc,         \* position in the code of the operation
    arg,        \* the operation's scalar argument (Select's k, Search's value)
    sel,        \* Select's frame: [s: view, k: rank inside s]
    piv,        \* pivot's frame: [s: view, left, medLen]
    srt,        \* sortSmallSlice's frame: [s: view, i, j, ret: label to return to]
    par,        \* partition's frame: [p, cursor, i]
    srch,       \* Search's frame: [start, end, seen: the (start, end) of past rounds]
    cmp,        \* the operands of a comparison: [lhs, rhs]
    result,     \* what the operation returned
    argT,       \* the types of the arguments: [slice, value, lhs]
    desc,       \* the type descriptor (reflectutil.T) under test: [ok, t]
    view        \* the slice view (reflectutil.Slice) under test: [s, offset, n], with
                \* the sum of the lower bounds and the number of its narrowings

vars == <<slice, input, fns, oracle, op, pc, arg, sel, piv, srt, par, srch, cmp, result,
          argT, desc, view>>

\* ------------------------------------------------------------ helpers
RECURSIVE SeqsUpTo(_, _)
\* All sequences over S of length at most n.
SeqsUpTo(S, n) ==
    IF n = 0 THEN {<<>>}
    ELSE LET shorter == SeqsUpTo(S, n - 1)
         IN  shorter \cup {Append(t, x) : t \in {u \in shorter : Len(u) = n - 1}, x \in S}

minInt(a, b) == IF a < b THEN a ELSE b

Sign(x) == IF x < 0 THEN -1 ELSE IF x > 0 THEN 1 ELSE 0

\* Go's int is a machine word of IntBits bits in two's complement.
Word == 2 ^ IntBits

\* uint(x): the machine word of x read as unsigned.
toUint(x) == x % Word

\* int(u): the machine word of u read as signed.
toInt(u) == IF (u % Word) >= Word \div 2 THEN (u % Word) - Word ELSE u % Word

\* math.MinInt, the one int whose negation is itself.
MinInt == -(Word \div 2)

\* ------------------------------------------------------------ Go types
\* A reflect.Type is modelled as the sequence of its constructors: any number
\* of "ptr" and "slice" in front of the name of a type that is neither.
\*   int      <<"int">>          **int    <<"ptr", "ptr", "int">>
\*   []byte   <<"slice", "uint8">>        *[]*t1   <<"ptr", "slice", "ptr", "t1">>
Basic(kind, bits) == [kind |-> kind, bits |-> bits]

\* reflect.Kind and Bits of the named types. myString is defined from string,
\* t1 and t2 are structs with the same fields, u1 is a struct with other fields.
\* orange is defined from int and has a method Compare; wrong1 is a struct whose
\* Compare returns a bool, wrong2 is defined from int and has the same method;
\* notComparable is a struct without methods.
Named ==
    ("int8" :> Basic("int8", 8)) @@ ("int16" :> Basic("int16", 16)) @@
    ("int64" :> Basic("int64", 64)) @@ ("int" :> Basic("int", 64)) @@
    ("uint8" :> Basic("uint8", 8)) @@ ("uint16" :> Basic("uint16", 16)) @@
    ("uint64" :> Basic("uint64", 64)) @@
    ("float32" :> Basic("float32", 32)) @@ ("float64" :> Basic("float64", 64)) @@
    ("complex64" :> Basic("complex64", 64)) @@ ("complex128" :> Basic("complex128", 128)) @@
    ("string" :> Basic("string", 0)) @@ ("myString" :> Basic("string", 0)) @@
    ("bool" :> Basic("bool", 0)) @@
    ("t1" :> Basic("struct", 0)) @@ ("t2" :> Basic("struct", 0)) @@ ("u1" :> Basic("struct", 0)) @@
    ("orange" :> Basic("int", 64)) @@ ("wrong2" :> Basic("int", 64)) @@
    ("wrong1" :> Basic("struct", 0)) @@ ("notComparable" :> Basic("struct", 0)) @@
    ("time.Time" :> Basic("struct", 0)) @@
    ("[8]byte" :> Basic("array", 0)) @@ ("map[int]int" :> Basic("map", 0)) @@
    ("func()" :> Basic("func", 0))

Names == DOMAIN Named

NoType == <<>>

PtrTo(tp) == <<"ptr">> \o tp
SliceType(tp) == <<"slice">> \o tp

\* reflect.Type.Kind
Kind(tp) == IF Head(tp) \in {"ptr", "slice"} THEN Head(tp) ELSE Named[Head(tp)].kind

\* reflect.Type.Elem of a pointer or a slice
Elem(tp) == Tail(tp)

\* reflect.Type.Bits of a numeric type
Bits(tp) == Named[Head(tp)].bits

\* reflect.Type.ConvertibleTo, asked of two struct types.
ConvertibleTo(src, dst) == src = dst \/ {Head(src), Head(dst)} = {"t1", "t2"}

SignedKinds == {"int", "int8", "int16", "int32", "int64"}
UnsignedKinds == {"uint", "uint8", "uint16", "uint32", "uint64"}
FloatKinds == {"float32", "float64"}
ComplexKinds == {"complex64", "complex128"}

\* numKindOf
numKindOf(tp) ==
    LET k == Kind(tp)
    IN  IF k \in SignedKinds THEN "numInt"
        ELSE IF k \in UnsignedKinds THEN "numUint"
        ELSE IF k \in FloatKinds THEN "numFloat"
        ELSE IF k \in ComplexKinds THEN "numFloat"
        ELSE "numNot"

\* A width test that lets a number go to a narrower type only.
kindConversionNarrows(src, dst) ==
    IF Kind(src) = Kind(dst) /\ (Kind(dst) # "struct" \/ ConvertibleTo(src, dst))
    THEN TRUE
    ELSE /\ numKindOf(src) # "numNot"
         /\ numKindOf(src) = numKindOf(dst)
         /\ Bits(dst) <= Bits(src)

\* kindConversionAllowed
kindConversionAllowed(src, dst) ==
    IF Kind(src) = Kind(dst) /\ (Kind(dst) # "struct" \/ ConvertibleTo(src, dst))
    THEN TRUE
    ELSE /\ numKindOf(src) # "numNot"
         /\ numKindOf(src) = numKindOf(dst)
         /\ Bits(src) <= Bits(dst)

\* The descriptor T: the type below all pointers, and how many there were.
MkT(tp, n) == [Type |-> tp, ptrCount |-> n]

\* A New that takes every slice for a slice of bytes.
RECURSIVE newAnySlice(_, _)
newAnySlice(tp, n) ==
    LET k == Kind(tp)
    IN  IF k = "ptr" THEN newAnySlice(Elem(tp), n + 1)
        ELSE IF k \in {"array", "map", "func"}
        THEN [ok |-> FALSE, t |-> MkT(NoType, n)]
        ELSE [ok |-> TRUE, t |-> MkT(tp, n)]

RECURSIVE newLoop(_, _)
\* The loop of New when it stands at type tp after n pointers.
newLoop(tp, n) ==
    LET k == Kind(tp)
    IN  IF k = "ptr" THEN newLoop(Elem(tp), n + 1)
        ELSE IF k = "slice" /\ Kind(Elem(tp)) # "uint8"
        THEN [ok |-> FALSE, t |-> MkT(NoType, n)]
        ELSE IF k \in {"array", "map", "func"}
        THEN [ok |-> FALSE, t |-> MkT(NoType, n)]
        ELSE [ok |-> TRUE, t |-> MkT(tp, n)]

\* reflectutil.New: ok is false when it returns an error.
New(tp) == newLoop(tp, 0)

\* A reflect.Value: its type and what lies behind all its pointers. No pointer
\* of a value is nil.
MkValue(tp, x) == [type |-> tp, val |-> x]

\* The nil *reflect.Value that Check hands to convert.
NoValue == MkValue(NoType, 0)

\* reflect.Value.Elem of a pointer
ValueElem(v) == IF v = NoValue THEN v ELSE MkValue(Elem(v.type), v.val)

\* ptrTo: a new pointer to a copy of v
ptrTo(v) == MkValue(PtrTo(v.type), v.val)

RECURSIVE ptrToTimes(_, _)
ptrToTimes(v, n) == IF n = 0 THEN v ELSE ptrToTimes(ptrTo(v), n - 1)

\* Whether reflect.Value.Convert has a conversion from src to dst (it panics
\* when it has none).
reflectConvertible(src, dst) ==
    LET ks == Kind(src)
        kd == Kind(dst)
        real == SignedKinds \cup UnsignedKinds \cup FloatKinds
    IN  \/ src = dst
        \/ ks \in real /\ kd \in real
        \/ ks \in ComplexKinds /\ kd \in ComplexKinds
        \/ ks = "string" /\ kd = "string"
        \/ ks = "bool" /\ kd = "bool"
        \/ ks = "struct" /\ kd = "struct" /\ ConvertibleTo(src, dst)

\* The number x after conversion to type dst: integers of 8 and 16 bits keep
\* the low bits only.
convertNumber(x, dst) ==
    LET k == Kind(dst)
        m == 2 ^ Bits(dst)
    IN  IF k \in SignedKinds /\ Bits(dst) <= 16
        THEN (IF (x % m) >= m \div 2 THEN (x % m) - m ELSE x % m)
        ELSE IF k \in UnsignedKinds /\ Bits(dst) <= 16 THEN x % m
        ELSE x

\* reflect.Value.Convert
reflectConvert(v, dst) == MkValue(dst, convertNumber(v.val, dst))

\* A loop of convert that never follows a pointer of the candidate.
convertLoopNoElem(dst, src, v) ==
    IF src = dst THEN [ok |-> TRUE, panics |-> FALSE, v |-> v]
    ELSE IF kindConversionAllowed(src, dst)
    THEN IF v = NoValue THEN [ok |-> TRUE, panics |-> FALSE, v |-> v]
         ELSE IF reflectConvertible(src, dst)
         THEN [ok |-> TRUE, panics |-> FALSE, v |-> reflectConvert(v, dst)]
         ELSE [ok |-> FALSE, panics |-> TRUE, v |-> v]
    ELSE [ok |-> FALSE, panics |-> FALSE, v |-> v]

RECURSIVE convertLoop(_, _, _)
\* The loop of T.convert when it stands at type src and value v; v is NoValue
\* when only the type is checked. panics: reflect.Value.Convert panicked.
convertLoop(dst, src, v) ==
    IF src = dst THEN [ok |-> TRUE, panics |-> FALSE, v |-> v]
    ELSE IF kindConversionAllowed(src, dst)
    THEN IF v = NoValue THEN [ok |-> TRUE, panics |-> FALSE, v |-> v]
         ELSE IF reflectConvertible(src, dst)
         THEN [ok |-> TRUE, panics |-> FALSE, v |-> reflectConvert(v, dst)]
         ELSE [ok |-> FALSE, panics |-> TRUE, v |-> v]
    ELSE IF Kind(src) = "ptr" THEN convertLoop(dst, Elem(src), ValueElem(v))
    ELSE [ok |-> FALSE, panics |-> FALSE, v |-> v]

\* T.convert: the loop, then the deferred function that puts ptrCount
\* pointers back on a converted value.
convert(t, src, v) ==
    LET r == convertLoop(t.Type, src, v)
    IN  IF r.ok /\ v # NoValue THEN [r EXCEPT !.v = ptrToTimes(r.v, t.ptrCount)] ELSE r

\* T.Check
Check(t, tp) == convert(t, tp, NoValue).ok

\* T.Convert: ok is false when it panics.
Convert(t, v) ==
    LET r == convert(t, v.type, v)
    IN  [ok |-> r.ok, v |-> r.v]

\* ------------------------------------------------- comparison functions
\* The elements stand for records with two keys, as the person{name, age} of the
\* package documentation: element v has name v \div 2 and age v % 2.
NameOf(v) == v \div 2
AgeOf(v) == v % 2

\* The functions of the list predefined, by the type of their parameters. The
\* values of the integer types are machine words of IntBits bits; a string, a
\* byte slice and a time.Time are numbered in their order; false is 0, true 1.
\*   "int64"   func(a, b int64) int { return int(a - b) }
\*   "uint64"  func(a, b uint64) int { return int(a - b) }
\*   "string"  strings.Compare          "bytes"  bytes.Compare
\*   "bool"    0 when equal, 1 when a, else -1
\*   "time"    0 when a.Equal(b), 1 when a.After(b), else -1
PredefinedNames == {"int64", "uint64", "string", "bytes", "bool", "time"}

predefinedFn(f, a, b) ==
    CASE f = "int64"  -> toInt(toInt(a - b))
      [] f = "uint64" -> toInt(toUint(a - b))
      [] f = "string" -> Sign(a - b)
      [] f = "bytes"  -> Sign(a - b)
      [] f = "bool"   -> IF a = b THEN 0 ELSE IF a = 1 THEN 1 ELSE -1
      [] f = "time"   -> IF a = b THEN 0 ELSE IF a > b THEN 1 ELSE -1

\* The three-way functions callers hand to By.
\*   "ints"  func(a, b int) int { return a - b }
\*   "name"  func(a, b person) int { return strings.Compare(a.name, b.name) }
\*   "age"   func(a, b person) int { return a.age - b.age }
\*   "any"   a function whose results follow no order at all
UserFn(f, a, b) ==
    CASE f = "ints" -> toInt(a - b)
      [] f = "name" -> Sign(NameOf(a) - NameOf(b))
      [] f = "age"  -> AgeOf(a) - AgeOf(b)
      [] f = "any"  -> oracle
      [] f = "orange" -> toInt(a - b)
      [] f \in PredefinedNames -> predefinedFn(f, a, b)

Ordered == {"ints", "name", "age"}

\* A value handed to By: a function of behaviour f with the parameter types in
\* and the result types out, or a value that is no function.
Func(f, in, out) == [isFunc |-> TRUE, f |-> f, in |-> in, out |-> out]
NotAFunc == [isFunc |-> FALSE, f |-> "", in |-> <<>>, out |-> <<>>]

NoT == MkT(NoType, 0)
NoFn == [f |-> "", rev |-> 0, t |-> NoT, t2 |-> NoT]

\* newFn: a Fn is the function wrapped rev times by Reversed, the descriptor t
\* of its first parameter and the descriptor t2 its closure converts the
\* second operand with. ok is false when newFn returns an error.
newFn(fun) ==
    IF ~fun.isFunc THEN [ok |-> FALSE, fn |-> NoFn]
    ELSE IF Len(fun.in) # 2 THEN [ok |-> FALSE, fn |-> NoFn]
    ELSE LET t1 == New(fun.in[1])
             t2 == New(fun.in[2])
         IN  IF ~t1.ok THEN [ok |-> FALSE, fn |-> NoFn]
             ELSE IF ~t2.ok THEN [ok |-> FALSE, fn |-> NoFn]
             ELSE IF t1.t.Type # t2.t.Type THEN [ok |-> FALSE, fn |-> NoFn]
             ELSE IF Len(fun.out) # 1 THEN [ok |-> FALSE, fn |-> NoFn]
             ELSE IF Kind(fun.out[1]) # "int" THEN [ok |-> FALSE, fn |-> NoFn]
             ELSE [ok |-> TRUE, fn |-> [f |-> fun.f, rev |-> 0, t |-> t1.t, t2 |-> t2.t]]

\* The functions of the algorithms take two ints and return an int.
IntType == <<"int">>
IntFunc(f) == Func(f, <<IntType, IntType>>, <<IntType>>)

\* The Fn that newFn makes of the function f.
MkFn(f) == newFn(IntFunc(f)).fn

RECURSIVE FnCall(_, _, _)
\* Fn.fn(lhs, rhs): the user's function below rev negating closures.
FnCall(fn, lhs, rhs) ==
    IF fn.rev = 0 THEN UserFn(fn.f, lhs, rhs)
    ELSE toInt(-FnCall([fn EXCEPT !.rev = @ - 1], lhs, rhs))

\* Fns.Reversed: every function is wrapped, the order of the list is kept.
Reversed(fs) == [i \in 1..Len(fs) |-> [fs[i] EXCEPT !.rev = @ + 1]]

RECURSIVE compareFromLast(_, _, _, _)
\* A loop that goes on after a result that is not zero: the last one wins.
compareFromLast(fs, i, lhs, rhs) ==
    IF i > Len(fs) THEN 0
    ELSE LET c == FnCall(fs[i], lhs, rhs)
             rest == compareFromLast(fs, i + 1, lhs, rhs)
         IN  IF rest # 0 THEN rest ELSE c

RECURSIVE compareFrom(_, _, _, _)
\* What compare returns when the loop over fns stands before function i.
compareFrom(fs, i, lhs, rhs) ==
    IF i > Len(fs) THEN 0
    ELSE LET c == FnCall(fs[i], lhs, rhs)
         IN  IF c # 0 THEN c ELSE compareFrom(fs, i + 1, lhs, rhs)

\* Fns.compare
compare(fs, lhs, rhs) == compareFrom(fs, 1, lhs, rhs)

\* The closure of fn panics when it is handed a value of type ltp and one of
\* type rtp: T.Convert panics on one of them, convert having returned false or
\* panicked itself.
fnPanics(fn, ltp, rtp) ==
    ~convert(fn.t, ltp, MkValue(ltp, 0)).ok \/ ~convert(fn.t2, rtp, MkValue(rtp, 0)).ok

RECURSIVE comparePanicsFrom(_, _, _, _, _, _)
\* Whether compare panics when the loop over fns stands before function i.
comparePanicsFrom(fs, i, ltp, rtp, lhs, rhs) ==
    IF i > Len(fs) THEN FALSE
    ELSE IF fnPanics(fs[i], ltp, rtp) THEN TRUE
    ELSE IF FnCall(fs[i], lhs, rhs) # 0 THEN FALSE
    ELSE comparePanicsFrom(fs, i + 1, ltp, rtp, lhs, rhs)

\* Fns.compare panics, of a value lhs of type ltp and a value rhs of type rtp:
\* the loop comes to a function whose closure cannot convert them.
comparePanics(fs, ltp, rtp, lhs, rhs) == comparePanicsFrom(fs, 1, ltp, rtp, lhs, rhs)

\* Fn.T: the type of the parameters below all pointers
FnT(fn) == fn.t.Type

\* Fns.T
FnsT(fs) == FnT(fs[1])

\* Fns.check
check(fs, tp) == Check(fs[1].t, tp)

\* A mustValue that lets every value through.
mustValueAnything(fs, tp) == TRUE

\* Fns.mustValue, of a value of type tp: false when it panics.
mustValue(fs, tp) == check(fs, tp)

RECURSIVE getSliceValue(_)
\* getSliceValue, of a value of type tp: the slice behind its pointers; ok is
\* false when there is none.
getSliceValue(tp) ==
    IF Kind(tp) = "slice" THEN [ok |-> TRUE, type |-> tp]
    ELSE IF Kind(tp) = "ptr" THEN getSliceValue(Elem(tp))
    ELSE [ok |-> FALSE, type |-> NoType]

\* Slice.T, of the slice behind a value of type tp: the type of its elements.
SliceT(tp) == Elem(getSliceValue(tp).type)

\* Fns.mustSlice, of a value of type tp: false when it panics, because
\* NewSlice returns an error or the type of the elements fails the check.
mustSlice(fs, tp) ==
    LET s == getSliceValue(tp)
    IN  IF ~s.ok THEN FALSE ELSE check(fs, Elem(s.type))

\* An append that checks nothing.
appendUnchecked(fs, fn) == [ok |-> TRUE, fns |-> Append(fs, fn)]

\* Fns.append: ok is false when it returns an error.
append(fs, fn) ==
    IF Len(fs) # 0 /\ ~check(fs, FnT(fn))
    THEN [ok |-> FALSE, fns |-> fs]
    ELSE [ok |-> TRUE, fns |-> Append(fs, fn)]

RECURSIVE byLoop(_, _, _)
\* The loop of By when it stands before function i with the list fs built.
byLoop(funs, i, fs) ==
    IF i > Len(funs) THEN [ok |-> TRUE, fns |-> fs]
    ELSE LET cmpFn == newFn(funs[i])
         IN  IF ~cmpFn.ok THEN [ok |-> FALSE, fns |-> <<>>]
             ELSE LET r == append(fs, cmpFn.fn)
                  IN  IF ~r.ok THEN [ok |-> FALSE, fns |-> <<>>]
                      ELSE byLoop(funs, i + 1, r.fns)

\* By: ok is false when it panics.
By(funs) ==
    IF Len(funs) = 0 THEN [ok |-> FALSE, fns |-> <<>>]
    ELSE byLoop(funs, 1, <<>>)

\* ----------------------------------------------------------- slice views
\* reflectutil.Slice: the window [lo, lo+len) of the backing storage that the
\* reflect.Value covers, its capacity, and the offset added to the indices of
\* swap.
NewSlice(sl) == [lo |-> 0, len |-> Len(sl), cap |-> Len(sl), swapOffset |-> 0]

\* A narrowing that forgets to move the offset of swap.
sliceKeepsOffset(s, i, j) ==
    [lo |-> s.lo + i, len |-> j - i, cap |-> s.cap - i, swapOffset |-> s.swapOffset]

\* Slice.Slice(i, j)
SliceOf(s, i, j) ==
    [lo |-> s.lo + i, len |-> j - i, cap |-> s.cap - i, swapOffset |-> s.swapOffset + i]

\* Slice.Slice3(i, j, k)
Slice3Of(s, i, j, k) ==
    [lo |-> s.lo + i, len |-> j - i, cap |-> k - i, swapOffset |-> s.swapOffset + i]

\* Slice.Index(i), read from backing storage sl.
Index(sl, s, i) == sl[s.lo + i + 1]

\* A swap that forgets its second assignment.
swapperOverwrites(sl, i, j) == [sl EXCEPT ![i + 1] = sl[j + 1]]

\* The backing storage after reflect.Swapper's swap(i, j).
swapper(sl, i, j) == [sl EXCEPT ![i + 1] = sl[j + 1], ![j + 1] = sl[i + 1]]

\* The backing storage after Slice.Swap(i, j).
Swap(sl, s, i, j) == swapper(sl, i + s.swapOffset, j + s.swapOffset)

\* ------------------------------------------------------ frames at rest
NoView == [lo |-> 0, len |-> 0, cap |-> 0, swapOffset |-> 0]
NoSel == [s |-> NoView, k |-> 0]
NoPiv == [s |-> NoView, left |-> 0, medLen |-> 0]
NoSrt == [s |-> NoView, i |-> 0, j |-> 0, ret |-> ""]
NoPar == [p |-> 0, cursor |-> 0, i |-> 0]
NoSrch == [start |-> 0, end |-> 0, seen |-> {}]
NoCmp == [lhs |-> 0, rhs |-> 0]

\* The arguments of the algorithms: a []int and ints.
IntArgs == [slice |-> SliceType(IntType), value |-> IntType, lhs |-> IntType]
NoDesc == [ok |-> FALSE, t |-> NoT]
NoSliceView == [s |-> NoView, offset |-> 0, n |-> 0]

\* A function in the list follows no order: its next result is drawn afresh
\* whenever a step has called compare.
UsesAny(fs) == \E i \in 1..Len(fs) : fs[i].f = "any"
Outcomes == {-1, 0, 1}
DrawOracle == IF UsesAny(fns) THEN oracle' \in Outcomes ELSE oracle' = oracle

\* The place a method of Fns is called from: by the caller who holds the
\* function list, or by the package-level function of the same name once it has
\* found the function list of the type.
AtCall(name) == pc = "idle" \/ (pc = "resolved" /\ op = name)

\* The state every operation starts from: nothing called yet, the arguments
\* of the types args.
IdleWith(sl, fs, args) ==
    /\ slice = sl
    /\ input = sl
    /\ fns = fs
    /\ oracle \in (IF UsesAny(fs) THEN Outcomes ELSE {0})
    /\ op = ""
    /\ pc = "idle"
    /\ arg = 0
    /\ sel = NoSel
    /\ piv = NoPiv
    /\ srt = NoSrt
    /\ par = NoPar
    /\ srch = NoSrch
    /\ cmp = NoCmp
    /\ result = <<>>
    /\ argT = args
    /\ desc = NoDesc
    /\ view = NoSliceView

\* The same, the arguments a []int and ints.
Idle(sl, fs) == IdleWith(sl, fs, IntArgs)

\* ------------------------------------------------------------- Select
\* A bounds check that lets k = n through.
outOfBoundsOffByOne(k, n) == k < 0 \/ k > n

\* The bounds check of Select: k is no index of a slice of n elements.
outOfBounds(k, n) == k < 0 \/ k >= n

\* The test of sortSmallSlice's inner loop on compare(s[j-1], s[j]).
outOfOrder(c) == c > 0

\* A scan that moves the greater elements to the front.
belowPivotInverted(c) == c > 0

\* The test of partition's scan on compare(s[i], pivot).
belowPivot(c) == c < 0

\* The upper of the two middle elements of a group of even length.
medianIndexUpper(left, right) == (left + right) \div 2

\* Index of the middle element of the sorted group s[left:right].
medianIndex(left, right) == (left + right - 1) \div 2

\* A switch that keeps the pivot in the window it continues with on the left.
selectNextKeepsPivot(s, k, pivot) ==
    IF pivot = k THEN [done |-> TRUE, s |-> s, k |-> k]
    ELSE IF pivot < k
         THEN [done |-> FALSE, s |-> SliceOf(s, pivot + 1, s.len), k |-> k - (pivot + 1)]
         ELSE [done |-> FALSE, s |-> SliceOf(s, 0, pivot + 1), k |-> k]

\* The switch of Select on the index partition returned: the window and the
\* rank the loop continues with, or done.
selectNext(s, k, pivot) ==
    IF pivot = k THEN [done |-> TRUE, s |-> s, k |-> k]
    ELSE IF pivot < k
         THEN [done |-> FALSE, s |-> SliceOf(s, pivot + 1, s.len), k |-> k - (pivot + 1)]
         ELSE [done |-> FALSE, s |-> SliceOf(s, 0, pivot), k |-> k]

\* The window pivot continues with after a pass over the groups of s.
mediansOf(s, medLen) == SliceOf(s, 0, medLen)

\* Calling sortSmallSlice(s) from a place that continues at ret: the outer loop
\* is entered at i = 1 when the slice has two elements or more.
sortCall(s, ret) ==
    IF 1 < s.len
    THEN /\ srt' = [s |-> s, i |-> 1, j |-> 1, ret |-> ret]
         /\ pc' = "sort"
    ELSE /\ srt' = NoSrt
         /\ pc' = ret

\* Select(slice, k): the argument checks, then the first call of pivot.
SelectCall(k) ==
    /\ AtCall("Select")
    /\ op' = "Select"
    /\ arg' = k
    /\ LET s == NewSlice(slice)
       IN  IF ~mustSlice(fns, argT.slice) \/ outOfBounds(k, s.len)
           THEN /\ pc' = "panic"
                /\ UNCHANGED <<sel, piv>>
           ELSE /\ pc' = "pivot"
                /\ sel' = [s |-> s, k |-> k]
                /\ piv' = [s |-> s, left |-> 0, medLen |-> 0]
    /\ UNCHANGED <<slice, input, fns, oracle, srt, par, srch, cmp, result>>
    /\ UNCHANGED <<argT, desc, view>>

\* pivot: the head of its loop.
PivotLoop ==
    /\ pc = "pivot"
    /\ LET n == piv.s.len
       IN  IF ~(n > 0)
           THEN /\ pc' = "partition"
                /\ piv' = NoPiv
                /\ srt' = srt
           ELSE IF n <= size
           THEN /\ sortCall(piv.s, "pivot_median")
                /\ piv' = piv
           ELSE /\ piv' = [piv EXCEPT !.left = 0, !.medLen = 0]
                /\ pc' = "group"
                /\ srt' = srt
    /\ UNCHANGED <<slice, input, fns, oracle, op, arg, sel, par, srch, cmp, result>>
    /\ UNCHANGED <<argT, desc, view>>

\* pivot, five elements or fewer: the median goes to index 0 and pivot returns.
PivotMedian ==
    /\ pc = "pivot_median"
    /\ slice' = Swap(slice, piv.s, (piv.s.len - 1) \div 2, 0)
    /\ piv' = NoPiv
    /\ pc' = "partition"
    /\ UNCHANGED <<input, fns, oracle, op, arg, sel, srt, par, srch, cmp, result>>
    /\ UNCHANGED <<argT, desc, view>>

\* pivot: the head of the loop over the groups of five.
GroupLoop ==
    /\ pc = "group"
    /\ LET n == piv.s.len
           right == minInt(piv.left + size, n)
       IN  IF piv.left < n
           THEN /\ sortCall(SliceOf(piv.s, piv.left, right), "group_median")
                /\ piv' = piv
           ELSE /\ piv' = [piv EXCEPT !.s = mediansOf(piv.s, piv.medLen)]
                /\ pc' = "pivot"
                /\ srt' = srt
    /\ UNCHANGED <<slice, input, fns, oracle, op, arg, sel, par, srch, cmp, result>>
    /\ UNCHANGED <<argT, desc, view>>

\* pivot: the middle element of the sorted group goes behind the medians
\* collected so far.
GroupMedian ==
    /\ pc = "group_median"
    /\ LET right == minInt(piv.left + size, piv.s.len)
       IN  slice' = Swap(slice, piv.s, medianIndex(piv.left, right), piv.medLen)
    /\ piv' = [piv EXCEPT !.medLen = @ + 1, !.left = @ + size]
    /\ pc' = "group"
    /\ UNCHANGED <<input, fns, oracle, op, arg, sel, srt, par, srch, cmp, result>>
    /\ UNCHANGED <<argT, desc, view>>

\* sortSmallSlice: one test of the inner loop's condition, and what follows it:
\* the swap and j--, or the next i, or the return.
SortStep ==
    /\ pc = "sort"
    /\ LET s == srt.s
           i == srt.i
           j == srt.j
           tp == SliceT(argT.slice)
       IN  IF j > 0 /\ comparePanics(fns, tp, tp, Index(slice, s, j - 1), Index(slice, s, j))
           THEN /\ slice' = slice
                /\ srt' = srt
                /\ pc' = "panic"
           ELSE IF j > 0 /\ outOfOrder(compare(fns, Index(slice, s, j - 1), Index(slice, s, j)))
           THEN /\ slice' = Swap(slice, s, j - 1, j)
                /\ srt' = [srt EXCEPT !.j = j - 1]
                /\ pc' = pc
           ELSE /\ slice' = slice
                /\ IF i + 1 < s.len
                   THEN /\ srt' = [srt EXCEPT !.i = i + 1, !.j = i + 1]
                        /\ pc' = pc
                   ELSE /\ srt' = NoSrt
                        /\ pc' = srt.ret
    /\ DrawOracle
    /\ UNCHANGED <<input, fns, op, arg, sel, piv, par, srch, cmp>>
    /\ UNCHANGED result
    /\ UNCHANGED <<argT, desc, view>>

\* partition(s, p): the pivot goes to the end of the window.
PartitionStart ==
    /\ pc = "partition"
    /\ slice' = Swap(slice, sel.s, par.p, sel.s.len - 1)
    /\ par' = [par EXCEPT !.cursor = 0, !.i = 0]
    /\ pc' = "scan"
    /\ UNCHANGED <<input, fns, oracle, op, arg, sel, piv, srt, srch, cmp, result>>
    /\ UNCHANGED <<argT, desc, view>>

\* partition: one round of the scan. The pivot is the reflect.Value of the last
\* element: it is read where it lies.
PartitionScan ==
    /\ pc = "scan"
    /\ par.i < sel.s.len - 1
    /\ LET s == sel.s
           n == s.len
           tp == SliceT(argT.slice)
       IN  IF comparePanics(fns, tp, tp, Index(slice, s, par.i), Index(slice, s, n - 1))
           THEN /\ slice' = slice
                /\ par' = par
                /\ pc' = "panic"
           ELSE IF belowPivot(compare(fns, Index(slice, s, par.i), Index(slice, s, n - 1)))
           THEN /\ slice' = Swap(slice, s, par.cursor, par.i)
                /\ par' = [par EXCEPT !.cursor = @ + 1, !.i = @ + 1]
                /\ pc' = pc
           ELSE /\ slice' = slice
                /\ par' = [par EXCEPT !.i = @ + 1]
                /\ pc' = pc
    /\ DrawOracle
    /\ UNCHANGED <<input, fns, op, arg, sel, piv, srt, srch, cmp, result>>
    /\ UNCHANGED <<argT, desc, view>>

\* partition: the pivot goes to the cursor, partition returns the cursor, and
\* Select returns or goes on with the part that holds the k'th element.
PartitionEnd ==
    /\ pc = "scan"
    /\ ~(par.i < sel.s.len - 1)
    /\ slice' = Swap(slice, sel.s, par.cursor, sel.s.len - 1)
    /\ par' = NoPar
    /\ LET next == selectNext(sel.s, sel.k, par.cursor)
       IN  /\ sel' = [s |-> next.s, k |-> next.k]
           /\ IF next.done
              THEN /\ pc' = "done"
                   /\ piv' = piv
              ELSE /\ pc' = "pivot"
                   /\ piv' = [s |-> next.s, left |-> 0, medLen |-> 0]
    /\ UNCHANGED <<input, fns, oracle, op, arg, srt, srch, cmp, result>>
    /\ UNCHANGED <<argT, desc, view>>

SelectStep ==
    \/ PivotLoop
    \/ PivotMedian
    \/ GroupLoop
    \/ GroupMedian
    \/ SortStep
    \/ PartitionStart
    \/ PartitionScan
    \/ PartitionEnd

\* The comparison function lists Select is checked with: ties between
\* different elements, an order of two keys, a plain order and its reverse.
SelectFns ==
    { <<MkFn("name")>>, <<MkFn("age"), MkFn("name")>>, Reversed(<<MkFn("ints")>>) }

InitSelect == \E sl \in SeqsUpTo(Vals, MaxLen), fs \in SelectFns : Idle(sl, fs)

NextSelect ==
    \/ \E k \in -1..(Len(slice) + 1) : SelectCall(k)
    \/ SelectStep

SpecSelect == InitSelect /\ [][NextSelect]_vars

\* Select with comparison functions that follow no order, on slices of equal
\* and of different elements; every step that is enabled is eventually taken
\* (the code runs on once called).
AnyFns == { <<MkFn("any")>> }

AnyInputs == {sl \in SeqsUpTo({0, 1}, MaxLen) : \A i \in 1..Len(sl) : sl[i] = i % 2}

InitSelectAny == \E sl \in AnyInputs, fs \in AnyFns : Idle(sl, fs)

SpecSelectAny == InitSelectAny /\ [][NextSelect]_vars /\ WF_vars(NextSelect)

\* Select on long slices of ints: all elements equal, ascending, descending.
LongInputs ==
    { [i \in 1..LongLen |-> 0], [i \in 1..LongLen |-> i - 1], [i \in 1..LongLen |-> LongLen - i] }

InitSelectLong == \E sl \in LongInputs : Idle(sl, <<MkFn("ints")>>)

SpecSelectLong == InitSelectLong /\ [][NextSelect]_vars /\ WF_vars(NextSelect)

\* partition(s, p), called on the window s = slice[lo:hi] as the tests call it.
PartitionCall(lo, hi, p) ==
    /\ pc = "idle"
    /\ op' = "partition"
    /\ arg' = p
    /\ sel' = [s |-> SliceOf(NewSlice(slice), lo, hi), k |-> 0]
    /\ par' = [par EXCEPT !.p = p]
    /\ pc' = "partition"
    /\ UNCHANGED <<slice, input, fns, oracle, piv, srt, srch, cmp, result>>
    /\ UNCHANGED <<argT, desc, view>>

\* partition called so: the pivot goes to the cursor and the cursor is
\* returned.
PartitionReturn ==
    /\ pc = "scan"
    /\ op = "partition"
    /\ ~(par.i < sel.s.len - 1)
    /\ slice' = Swap(slice, sel.s, par.cursor, sel.s.len - 1)
    /\ result' = par.cursor
    /\ par' = NoPar
    /\ pc' = "done"
    /\ UNCHANGED <<input, fns, oracle, op, arg, sel, piv, srt, srch, cmp>>
    /\ UNCHANGED <<argT, desc, view>>

InitPartition == \E sl \in SeqsUpTo(Vals, MaxLen), fs \in SelectFns : Idle(sl, fs)

NextPartition ==
    \/ \E lo \in 0..1, hi \in (Len(slice) - 1)..Len(slice), p \in 0..(Len(slice) - 1) :
            lo < hi /\ p < hi - lo /\ PartitionCall(lo, hi, p)
    \/ PartitionStart
    \/ PartitionScan
    \/ PartitionReturn

SpecPartition == InitPartition /\ [][NextPartition]_vars

\* pivot(s), called on the window s = slice[lo:hi] as the tests call it; it has
\* returned when it stands before the call of partition.
PivotCall(lo, hi) ==
    /\ pc = "idle"
    /\ op' = "pivot"
    /\ sel' = [s |-> SliceOf(NewSlice(slice), lo, hi), k |-> 0]
    /\ piv' = [s |-> SliceOf(NewSlice(slice), lo, hi), left |-> 0, medLen |-> 0]
    /\ pc' = "pivot"
    /\ UNCHANGED <<slice, input, fns, oracle, arg, srt, par, srch, cmp, result>>
    /\ UNCHANGED <<argT, desc, view>>

\* The slices of the tests of pivot, with one, two and three groups.
PivotInputs ==
    { <<5, 4, 2, 3, 1>>, <<5, 4, 2, 3, 1, 10, 9, 8, 7>>,
      <<5, 4, 2, 3, 1, 10, 9, 8, 7, 6, 15, 14, 13>> }

InitPivot ==
    \/ \E sl \in SeqsUpTo(Vals, MaxLen), fs \in SelectFns : Idle(sl, fs)
    \/ \E sl \in PivotInputs \cup LongInputs : Idle(sl, <<MkFn("ints")>>)

NextPivot ==
    \/ \E lo \in 0..1, hi \in (Len(slice) - 1)..Len(slice) : lo <= hi /\ PivotCall(lo, hi)
    \/ PivotLoop
    \/ PivotMedian
    \/ GroupLoop
    \/ GroupMedian
    \/ SortStep

SpecPivot == InitPivot /\ [][NextPivot]_vars

\* ------------------------------------------------------------- Search
\* i := int(uint(start+end) >> 1)
mid(start, end) == toInt(toUint(toInt(start + end)) \div 2)

\* Reading index i of a view of n elements panics outside [0, n).
indexInRange(i, n) == 0 <= i /\ i < n

\* A switch that moves the wrong end of the range.
searchNextSwapped(start, end, i, c) ==
    IF c < 0 THEN [start |-> start, end |-> i - 1]
    ELSE [start |-> i + 1, end |-> end]

\* The last two cases of Search's switch: the range the loop continues with.
searchNext(start, end, i, c) ==
    IF c < 0 THEN [start |-> i + 1, end |-> end]
    ELSE [start |-> start, end |-> i - 1]

\* Search(slice, value): the argument checks, the range, the empty slice.
SearchCall(v) ==
    /\ AtCall("Search")
    /\ op' = "Search"
    /\ arg' = v
    /\ LET s == NewSlice(slice)
           start == 0
           end == s.len - 1
       IN  IF ~mustSlice(fns, argT.slice) \/ ~mustValue(fns, argT.value)
           THEN /\ result' = result
                /\ pc' = "panic"
                /\ srch' = srch
           ELSE IF start > end
           THEN /\ result' = -1
                /\ pc' = "done"
                /\ srch' = srch
           ELSE /\ result' = result
                /\ pc' = "search"
                /\ srch' = [start |-> start, end |-> end, seen |-> {}]
    /\ UNCHANGED <<slice, input, fns, oracle, sel, piv, srt, par, cmp>>
    /\ UNCHANGED <<argT, desc, view>>

\* Search: one round of the loop.
SearchStep ==
    /\ pc = "search"
    /\ LET s == NewSlice(slice)
           i == mid(srch.start, srch.end)
       IN  IF ~indexInRange(i, s.len)
           THEN /\ pc' = "panic"
                /\ UNCHANGED <<srch, result>>
           ELSE IF comparePanics(fns, SliceT(argT.slice), argT.value, Index(slice, s, i), arg)
           THEN /\ pc' = "panic"
                /\ UNCHANGED <<srch, result>>
           ELSE LET c == compare(fns, Index(slice, s, i), arg)
                IN  IF c = 0
                    THEN /\ result' = i
                         /\ pc' = "done"
                         /\ srch' = srch
                    ELSE IF srch.start = srch.end
                    THEN /\ result' = -1
                         /\ pc' = "done"
                         /\ srch' = srch
                    ELSE LET next == searchNext(srch.start, srch.end, i, c)
                         IN  /\ srch' = [start |-> next.start, end |-> next.end,
                                         seen |-> srch.seen \cup {<<srch.start, srch.end>>}]
                             /\ pc' = pc
                             /\ result' = result
    /\ UNCHANGED <<slice, input, fns, oracle, op, arg, sel, piv, srt, par, cmp>>
    /\ UNCHANGED <<argT, desc, view>>

\* The comparison function lists Search, MinMax and IsSorted are checked with.
ScanFns ==
    { <<MkFn("ints")>>, <<MkFn("name")>>, <<MkFn("age"), MkFn("name")>>,
      Reversed(<<MkFn("ints")>>) }

InitSearch == \E sl \in SeqsUpTo(Vals, MaxLen), fs \in ScanFns : Idle(sl, fs)

NextSearch ==
    \/ \E v \in Vals : SearchCall(v)
    \/ SearchStep

SpecSearch == InitSearch /\ [][NextSearch]_vars

\* ------------------------------------------------- MinMax and IsSorted
\* A scan in which a later equal element replaces the minimum.
lessThanMinOrEqual(c) == c >= 0

\* The test of MinMax on compare(s[min], s[i]).
lessThanMin(c) == c > 0

\* The test of MinMax on compare(s[max], s[i]).
greaterThanMax(c) == c < 0

RECURSIVE minMaxFrom(_, _, _, _, _)
\* The loop of MinMax standing before index i with min and max so far.
minMaxFrom(fs, sl, i, min, max) ==
    LET s == NewSlice(sl)
    IN  IF ~(i < s.len) THEN <<min, max>>
        ELSE LET min1 == IF lessThanMin(compare(fs, Index(sl, s, min), Index(sl, s, i)))
                         THEN i ELSE min
                 max1 == IF greaterThanMax(compare(fs, Index(sl, s, max), Index(sl, s, i)))
                         THEN i ELSE max
             IN  minMaxFrom(fs, sl, i + 1, min1, max1)

\* Fns.MinMax
MinMax(fs, sl) == IF Len(sl) = 0 THEN <<-1, -1>> ELSE minMaxFrom(fs, sl, 1, 0, 0)

RECURSIVE minMaxPanicsFrom(_, _, _, _, _, _)
\* Whether one of the comparisons of that loop panics, the elements of type tp.
minMaxPanicsFrom(fs, tp, sl, i, min, max) ==
    LET s == NewSlice(sl)
    IN  IF ~(i < s.len) THEN FALSE
        ELSE IF comparePanics(fs, tp, tp, Index(sl, s, min), Index(sl, s, i)) THEN TRUE
        ELSE IF comparePanics(fs, tp, tp, Index(sl, s, max), Index(sl, s, i)) THEN TRUE
        ELSE LET min1 == IF lessThanMin(compare(fs, Index(sl, s, min), Index(sl, s, i)))
                         THEN i ELSE min
                 max1 == IF greaterThanMax(compare(fs, Index(sl, s, max), Index(sl, s, i)))
                         THEN i ELSE max
             IN  minMaxPanicsFrom(fs, tp, sl, i + 1, min1, max1)

\* Fns.MinMax panics in a comparison.
MinMaxPanics(fs, tp, sl) == Len(sl) # 0 /\ minMaxPanicsFrom(fs, tp, sl, 1, 0, 0)

\* A check that takes equal neighbours for an inversion whatever strict is.
notSortedIgnoresStrict(c, strict) == c > 0 \/ c = 0

\* The test of isSorted on compare(s[i-1], s[i]).
notSorted(c, strict) == c > 0 \/ (c = 0 /\ strict)

RECURSIVE isSortedFrom(_, _, _, _)
\* The loop of isSorted standing before index i, going down.
isSortedFrom(fs, sl, i, strict) ==
    LET s == NewSlice(sl)
    IN  IF ~(i > 0) THEN TRUE
        ELSE IF notSorted(compare(fs, Index(sl, s, i - 1), Index(sl, s, i)), strict)
             THEN FALSE
             ELSE isSortedFrom(fs, sl, i - 1, strict)

\* Fns.isSorted
isSorted(fs, sl, strict) == isSortedFrom(fs, sl, Len(sl) - 1, strict)

RECURSIVE isSortedPanicsFrom(_, _, _, _, _)
\* Whether one of the comparisons of that loop panics, the elements of type tp.
isSortedPanicsFrom(fs, tp, sl, i, strict) ==
    LET s == NewSlice(sl)
    IN  IF ~(i > 0) THEN FALSE
        ELSE IF comparePanics(fs, tp, tp, Index(sl, s, i - 1), Index(sl, s, i)) THEN TRUE
        ELSE IF notSorted(compare(fs, Index(sl, s, i - 1), Index(sl, s, i)), strict)
             THEN FALSE
             ELSE isSortedPanicsFrom(fs, tp, sl, i - 1, strict)

\* Fns.isSorted panics in a comparison.
isSortedPanics(fs, tp, sl, strict) == isSortedPanicsFrom(fs, tp, sl, Len(sl) - 1, strict)

MinMaxCall ==
    /\ AtCall("MinMax")
    /\ op' = "MinMax"
    /\ IF ~mustSlice(fns, argT.slice)
       THEN /\ pc' = "panic"
            /\ UNCHANGED result
       ELSE IF MinMaxPanics(fns, SliceT(argT.slice), slice)
       THEN /\ pc' = "panic"
            /\ UNCHANGED result
       ELSE /\ result' = MinMax(fns, slice)
            /\ pc' = "done"
    /\ UNCHANGED <<slice, input, fns, oracle, arg, sel, piv, srt, par, srch, cmp>>
    /\ UNCHANGED <<argT, desc, view>>

IsSortedCall ==
    /\ AtCall("IsSorted")
    /\ op' = "IsSorted"
    /\ IF ~mustSlice(fns, argT.slice)
       THEN /\ pc' = "panic"
            /\ UNCHANGED result
       ELSE IF isSortedPanics(fns, SliceT(argT.slice), slice, FALSE)
       THEN /\ pc' = "panic"
            /\ UNCHANGED result
       ELSE /\ result' = isSorted(fns, slice, FALSE)
            /\ pc' = "done"
    /\ UNCHANGED <<slice, input, fns, oracle, arg, sel, piv, srt, par, srch, cmp>>
    /\ UNCHANGED <<argT, desc, view>>

IsStrictSortedCall ==
    /\ AtCall("IsStrictSorted")
    /\ op' = "IsStrictSorted"
    /\ IF ~mustSlice(fns, argT.slice)
       THEN /\ pc' = "panic"
            /\ UNCHANGED result
       ELSE IF isSortedPanics(fns, SliceT(argT.slice), slice, TRUE)
       THEN /\ pc' = "panic"
            /\ UNCHANGED result
       ELSE /\ result' = isSorted(fns, slice, TRUE)
            /\ pc' = "done"
    /\ UNCHANGED <<slice, input, fns, oracle, arg, sel, piv, srt, par, srch, cmp>>
    /\ UNCHANGED <<argT, desc, view>>

InitScan == \E sl \in SeqsUpTo(Vals, MaxLen), fs \in ScanFns : Idle(sl, fs)

NextScan ==
    \/ MinMaxCall
    \/ IsSortedCall
    \/ IsStrictSortedCall

SpecScan == InitScan /\ [][NextScan]_vars

\* ------------------------------------------------------------ compare
\* The function lists of at most MaxFns functions that By accepts, and their
\* reversals.
RECURSIVE FnLists(_)
FnLists(n) ==
    IF n = 0 THEN {}
    ELSE LET one == {<<MkFn(f)>> : f \in Ordered}
             shorter == FnLists(n - 1)
         IN  one \cup shorter \cup {Append(fs, MkFn(f)) : fs \in shorter, f \in Ordered}

AllFns == FnLists(MaxFns) \cup {Reversed(fs) : fs \in FnLists(MaxFns)}

\* compare(lhs, rhs), as the operations of a Condition call it.
CompareCall(lhs, rhs) ==
    /\ pc = "idle"
    /\ op' = "compare"
    /\ cmp' = [lhs |-> lhs, rhs |-> rhs]
    /\ IF comparePanics(fns, argT.lhs, argT.value, lhs, rhs)
       THEN /\ pc' = "panic"
            /\ UNCHANGED result
       ELSE /\ result' = compare(fns, lhs, rhs)
            /\ pc' = "done"
    /\ UNCHANGED <<slice, input, fns, oracle, arg, sel, piv, srt, par, srch>>
    /\ UNCHANGED <<argT, desc, view>>

\* Fns.Reversed, called on the function list before anything is compared.
ReversedCall ==
    /\ pc = "idle"
    /\ \A i \in 1..Len(fns) : fns[i].rev < MaxRev
    /\ fns' = Reversed(fns)
    /\ UNCHANGED <<slice, input, oracle, op, pc, arg, sel, piv, srt, par, srch, cmp, result>>
    /\ UNCHANGED <<argT, desc, view>>

\* The operands of a comparison: the elements, and the int whose difference
\* from zero is math.MinInt.
Operands == Vals \cup {MinInt}

InitCompare == \E fs \in AllFns : Idle(<<>>, fs)

NextCompare ==
    \/ ReversedCall
    \/ \E lhs \in Operands, rhs \in Operands : CompareCall(lhs, rhs)

SpecCompare == InitCompare /\ [][NextCompare]_vars

\* --------------------------------------------------------------- Sort
\* less(i, j), the function that Sort hands to package sort.
less(fs, sl, i, j) == compare(fs, sl[i + 1], sl[j + 1]) < 0

\* The orders in which sl can be read: one for every permutation of its
\* indexes.
Orders(sl) == Permutations(1..Len(sl))

\* sort.Slice: any order of the elements in which no element is less than one
\* before it.
SortResults(fs, sl) ==
    {[i \in 1..Len(sl) |-> sl[f[i]]] : f \in
        {g \in Orders(sl) :
            \A i \in 1..Len(sl), j \in 1..Len(sl) :
                i < j => ~(compare(fs, sl[g[j]], sl[g[i]]) < 0)}}

\* sort.SliceStable: the one such order that keeps equal elements in the order
\* they had.
SortStableResults(fs, sl) ==
    {[i \in 1..Len(sl) |-> sl[f[i]]] : f \in
        {g \in Orders(sl) :
            \A i \in 1..Len(sl), j \in 1..Len(sl) :
                i < j => \/ compare(fs, sl[g[i]], sl[g[j]]) < 0
                         \/ compare(fs, sl[g[i]], sl[g[j]]) = 0 /\ g[i] < g[j]}}

\* Two elements of the slice that package sort cannot have compared.
sortPanics(fs, tp, sl) ==
    \E i \in 1..Len(sl), j \in 1..Len(sl) : i # j /\ comparePanics(fs, tp, tp, sl[i], sl[j])

\* The elements of sl in any order.
Rearranged(sl) == {[i \in 1..Len(sl) |-> sl[f[i]]] : f \in Orders(sl)}

\* The body of Sort and SortStable: less checks the slice, then package sort
\* panics unless it is handed a slice itself, then it sorts; a comparison that
\* panics stops it where it is, the elements in some order.
sortWith(name, sorted) ==
    /\ AtCall(name)
    /\ op' = name
    /\ IF ~mustSlice(fns, argT.slice) \/ Kind(argT.slice) # "slice"
       THEN /\ pc' = "panic"
            /\ UNCHANGED slice
       ELSE IF sortPanics(fns, SliceT(argT.slice), slice)
       THEN /\ pc' = "panic"
            /\ slice' \in Rearranged(slice)
       ELSE /\ slice' \in sorted
            /\ pc' = "done"
    /\ UNCHANGED <<input, fns, oracle, arg, sel, piv, srt, par, srch, cmp, result, argT, desc, view>>

\* Sort(slice)
SortCall == sortWith("Sort", SortResults(fns, slice))

\* SortStable(slice)
SortStableCall == sortWith("SortStable", SortStableResults(fns, slice))

\* ---------------------------------------------------------- Condition
\* The six tests of a Condition bound to lhs, of the value rhs.
Equal(fs, lhs, rhs) == compare(fs, lhs, rhs) = 0
NotEqual(fs, lhs, rhs) == compare(fs, lhs, rhs) # 0
\* A Greater that also holds of equal values.
greaterOrEqual(fs, lhs, rhs) == compare(fs, lhs, rhs) >= 0
Greater(fs, lhs, rhs) == compare(fs, lhs, rhs) > 0
GreaterEqual(fs, lhs, rhs) == compare(fs, lhs, rhs) >= 0
Less(fs, lhs, rhs) == compare(fs, lhs, rhs) < 0
LessEqual(fs, lhs, rhs) == compare(fs, lhs, rhs) <= 0

\* Is(lhs): the Condition holds lhs once its type has passed the check.
IsCall(lhs) ==
    /\ AtCall("Is")
    /\ op' = "Is"
    /\ arg' = lhs
    /\ IF ~mustValue(fns, argT.lhs)
       THEN /\ pc' = "panic"
            /\ UNCHANGED cmp
       ELSE /\ cmp' = [cmp EXCEPT !.lhs = lhs]
            /\ pc' = "is"
    /\ UNCHANGED <<slice, input, fns, oracle, sel, piv, srt, par, srch, result, argT, desc, view>>

\* The body of the six tests: the type of rhs is checked, then holds is what
\* the comparison of lhs with rhs says.
testWith(name, rhs, holds) ==
    /\ pc = "is"
    /\ op' = name
    /\ arg' = rhs
    /\ IF ~mustValue(fns, argT.value)
       THEN /\ pc' = "panic"
            /\ UNCHANGED <<cmp, result>>
       ELSE IF comparePanics(fns, argT.lhs, argT.value, cmp.lhs, rhs)
       THEN /\ cmp' = [cmp EXCEPT !.rhs = rhs]
            /\ pc' = "panic"
            /\ UNCHANGED result
       ELSE /\ cmp' = [cmp EXCEPT !.rhs = rhs]
            /\ result' = holds
            /\ pc' = "done"
    /\ UNCHANGED <<slice, input, fns, oracle, sel, piv, srt, par, srch, argT, desc, view>>

EqualCall(rhs) == testWith("Equal", rhs, Equal(fns, cmp.lhs, rhs))
NotEqualCall(rhs) == testWith("NotEqual", rhs, NotEqual(fns, cmp.lhs, rhs))
GreaterCall(rhs) == testWith("Greater", rhs, Greater(fns, cmp.lhs, rhs))
GreaterEqualCall(rhs) == testWith("GreaterEqual", rhs, GreaterEqual(fns, cmp.lhs, rhs))
LessCall(rhs) == testWith("Less", rhs, Less(fns, cmp.lhs, rhs))
LessEqualCall(rhs) == testWith("LessEqual", rhs, LessEqual(fns, cmp.lhs, rhs))

\* One of the six tests is called with rhs.
TestCall(rhs) ==
    \/ EqualCall(rhs)
    \/ NotEqualCall(rhs)
    \/ GreaterCall(rhs)
    \/ GreaterEqualCall(rhs)
    \/ LessCall(rhs)
    \/ LessEqualCall(rhs)

InitCondition == \E fs \in AllFns : Idle(<<>>, fs)

NextCondition ==
    \/ \E lhs \in Operands : IsCall(lhs)
    \/ \E rhs \in Operands : TestCall(rhs)

SpecCondition == InitCondition /\ [][NextCondition]_vars

\* ------------------------------------------------- argument checks
\* Function lists of one function over several parameter types.
GuardFns ==
    {By(<<Func("ints", <<tp, tp>>, <<IntType>>)>>).fns :
        tp \in {IntType, <<"int64">>, <<"ptr", "int">>, <<"string">>}}

\* The types of the values handed to the operations as the slice, as the
\* value and as the left-hand side.
GuardSliceTypes ==
    {SliceType(IntType), PtrTo(SliceType(IntType)), SliceType(<<"int8">>),
     SliceType(<<"ptr", "int">>), SliceType(<<"string">>), SliceType(<<"float64">>),
     IntType, <<"ptr", "int">>, <<"[8]byte">>}
GuardValueTypes == {IntType, <<"int8">>, <<"ptr", "int">>, <<"string">>, <<"float64">>, <<"uint8">>}
GuardLhsTypes == {IntType, <<"string">>, <<"float64">>}

\* The slices handed to the operations: none of the elements, and an ascending
\* one long enough for every step of Select.
GuardSlices == {<<>>, <<0, 0, 1, 1, 2, 2>>}

InitGuard ==
    \E sl \in GuardSlices, fs \in GuardFns :
        \E st \in GuardSliceTypes, vt \in GuardValueTypes, lt \in GuardLhsTypes :
            IdleWith(sl, fs, [slice |-> st, value |-> vt, lhs |-> lt])

NextGuard ==
    \/ \E k \in -1..Len(slice) : SelectCall(k)
    \/ SelectStep
    \/ \E v \in Vals : SearchCall(v)
    \/ SearchStep
    \/ MinMaxCall
    \/ IsSortedCall
    \/ IsStrictSortedCall
    \/ SortCall
    \/ SortStableCall
    \/ \E lhs \in Vals : IsCall(lhs)
    \/ \E rhs \in Vals : TestCall(rhs)

SpecGuard == InitGuard /\ [][NextGuard]_vars

\* Function lists whose functions take parameters of different types: By
\* accepts a later function when the descriptor of the first accepts its type.
MixedFns ==
    { By(<<Func("name", << <<"int64">>, <<"int64">> >>, <<IntType>>),
           Func("age", << <<"int8">>, <<"int8">> >>, <<IntType>>)>>).fns,
      By(<<Func("name", << <<"int64">>, <<"int64">> >>, <<IntType>>),
           Func("age", << <<"int64">>, <<"int64">> >>, <<IntType>>)>>).fns,
      By(<<Func("ints", << <<"int8">>, <<"int8">> >>, <<IntType>>)>>).fns }

\* The types of the slices and of the values handed to their operations.
MixedSliceTypes == {SliceType(<<"int64">>), SliceType(<<"int8">>), SliceType(<<"string">>)}
MixedValueTypes == {<<"int64">>, <<"int8">>, <<"string">>}

\* The slices handed to them: the short ones, and one long enough for every
\* step of Select.
MixedSlices == SeqsUpTo(Vals, 3) \cup {<<2, 0, 1, 2, 0, 1>>}

InitMixed ==
    \E sl \in MixedSlices, fs \in MixedFns :
        \E st \in MixedSliceTypes, vt \in MixedValueTypes :
            IdleWith(sl, fs, [slice |-> st, value |-> vt, lhs |-> vt])

SpecMixed == InitMixed /\ [][NextGuard]_vars

\* ------------------------------------------- package-level functions
\* The methods named Compare of the named types, all with a value receiver:
\* the parameters after the receiver and the results.
\*   func (o orange) Compare(other orange) int { return int(o - other) }
\*   func (w wrong1) Compare(other wrong1) bool { return false }
CompareMethods ==
    ("orange" :> [f |-> "orange", in |-> << <<"orange">> >>, out |-> <<IntType>>]) @@
    ("wrong1" :> [f |-> "wrong1", in |-> << <<"wrong1">> >>, out |-> << <<"bool">> >>]) @@
    ("wrong2" :> [f |-> "wrong2", in |-> << <<"wrong2">> >>, out |-> << <<"bool">> >>])

\* reflect.Type.MethodByName("Compare"): the method set of a named type and of
\* a pointer to it holds the methods with a value receiver; Func is the method
\* as a function whose first parameter is the receiver.
MethodByName(tp) ==
    LET recv == IF Kind(tp) = "ptr" THEN Elem(tp) ELSE tp
    IN  IF Len(recv) = 1 /\ recv[1] \in DOMAIN CompareMethods
        THEN LET method == CompareMethods[recv[1]]
             IN  [ok |-> TRUE, Func |-> Func(method.f, <<tp>> \o method.in, method.out)]
        ELSE [ok |-> FALSE, Func |-> NotAFunc]

\* The function lists of the built-in types; By of one function is the list
\* of the Fn that newFn makes of it.
predefined ==
    << <<newFn(Func("int64", << <<"int64">>, <<"int64">> >>, <<IntType>>)).fn>>,
       <<newFn(Func("uint64", << <<"uint64">>, <<"uint64">> >>, <<IntType>>)).fn>>,
       <<newFn(Func("string", << <<"string">>, <<"string">> >>, <<IntType>>)).fn>>,
       <<newFn(Func("bytes", << SliceType(<<"uint8">>), SliceType(<<"uint8">>) >>,
                    <<IntType>>)).fn>>,
       <<newFn(Func("bool", << <<"bool">>, <<"bool">> >>, <<IntType>>)).fn>>,
       <<newFn(Func("time", << <<"time.Time">>, <<"time.Time">> >>, <<IntType>>)).fn>> >>

RECURSIVE predefinedFrom(_, _)
\* The loop over predefined when it stands before list i.
predefinedFrom(tp, i) ==
    IF i > Len(predefined) THEN [ok |-> FALSE, fns |-> <<>>]
    ELSE IF check(predefined[i], tp) THEN [ok |-> TRUE, fns |-> predefined[i]]
    ELSE predefinedFrom(tp, i + 1)

\* A resolver that never looks for a method.
fnOfPredefinedOnly(tp) == predefinedFrom(tp, 1)

\* fnOfComparableT: ok is false when it returns an error.
fnOfComparableT(tp) ==
    LET method == MethodByName(tp)
    IN  IF method.ok
        THEN LET fn == newFn(method.Func)
             IN  IF ~fn.ok THEN [ok |-> FALSE, fns |-> <<>>]
                 ELSE [ok |-> TRUE, fns |-> <<fn.fn>>]
        ELSE predefinedFrom(tp, 1)

\* compareableFn: ok is false when it panics.
compareableFn(tp) == fnOfComparableT(tp)

\* compareableSlice, of a value of type tp: ok is false when it panics.
compareableSlice(tp) ==
    IF ~getSliceValue(tp).ok THEN [ok |-> FALSE, fns |-> <<>>]
    ELSE compareableFn(SliceT(tp))

\* The first half of a package-level function: the function list r of the type
\* is found, or the function panics; the method of the same name is called next.
resolveWith(name, r) ==
    /\ pc = "idle"
    /\ op' = name
    /\ IF ~r.ok
       THEN /\ pc' = "panic"
            /\ fns' = fns
       ELSE /\ pc' = "resolved"
            /\ fns' = r.fns
    /\ UNCHANGED <<slice, input, oracle, arg, sel, piv, srt, par, srch, cmp, result>>
    /\ UNCHANGED <<argT, desc, view>>

\* order.Is(value), order.Sort(slice), ... order.Select(slice, k)
PackageIs == resolveWith("Is", compareableFn(argT.lhs))
PackageSort == resolveWith("Sort", compareableSlice(argT.slice))
PackageSortStable == resolveWith("SortStable", compareableSlice(argT.slice))
PackageSearch == resolveWith("Search", compareableSlice(argT.slice))
PackageMinMax == resolveWith("MinMax", compareableSlice(argT.slice))
PackageIsSorted == resolveWith("IsSorted", compareableSlice(argT.slice))
PackageIsStrictSorted == resolveWith("IsStrictSorted", compareableSlice(argT.slice))
PackageSelect == resolveWith("Select", compareableSlice(argT.slice))

\* The types of the values and of the elements handed to the package-level
\* functions.
ResolveTypes ==
    { IntType, <<"int8">>, <<"uint8">>, <<"float64">>, <<"string">>, <<"myString">>,
      <<"bool">>, <<"time.Time">>, SliceType(<<"uint8">>), SliceType(IntType),
      PtrTo(IntType), <<"orange">>, PtrTo(<<"orange">>), PtrTo(PtrTo(<<"orange">>)),
      <<"wrong1">>, <<"wrong2">>, <<"notComparable">>, <<"func()">> }

\* The slices handed to them, of elements numbered 0 and 1.
ResolveSlices == { <<>>, <<1, 0>>, <<1, 0, 1, 0, 0, 1>> }

InitResolve ==
    \E tp \in ResolveTypes, sl \in ResolveSlices :
        \E st \in {SliceType(tp), PtrTo(SliceType(tp)), tp} :
            IdleWith(sl, <<>>, [slice |-> st, value |-> tp, lhs |-> tp])

NextResolve ==
    \/ PackageIs
    \/ PackageSort
    \/ PackageSortStable
    \/ PackageSearch
    \/ PackageMinMax
    \/ PackageIsSorted
    \/ PackageIsStrictSorted
    \/ PackageSelect
    \/ pc = "resolved" /\ \E lhs \in {0, 1} : IsCall(lhs)
    \/ \E rhs \in {0, 1} : TestCall(rhs)
    \/ pc = "resolved" /\ SortCall
    \/ pc = "resolved" /\ SortStableCall
    \/ pc = "resolved" /\ \E v \in {0, 1} : SearchCall(v)
    \/ SearchStep
    \/ pc = "resolved" /\ MinMaxCall
    \/ pc = "resolved" /\ IsSortedCall
    \/ pc = "resolved" /\ IsStrictSortedCall
    \/ pc = "resolved" /\ \E k \in -1..Len(slice) : SelectCall(k)
    \/ SelectStep

SpecResolve == InitResolve /\ [][NextResolve]_vars

\* The values of a 64-bit integer type the built-in comparators are checked
\* with: the ends of its range, their neighbours, and the values about zero
\* and about the middle of the unsigned range.
PredefinedOperands(tp) ==
    IF tp = <<"int64">>
    THEN {MinInt, MinInt + 1, -1, 0, 1, -MinInt - 2, -MinInt - 1}
    ELSE {0, 1, -MinInt - 1, -MinInt, Word - 2, Word - 1}

InitPredefined ==
    \E tp \in {<<"int64">>, <<"uint64">>} :
        IdleWith(<<>>, <<>>, [slice |-> SliceType(tp), value |-> tp, lhs |-> tp])

\* order.Is(lhs) of a 64-bit integer, then one of the six tests.
NextPredefined ==
    \/ PackageIs
    \/ pc = "resolved" /\ \E lhs \in PredefinedOperands(argT.lhs) : IsCall(lhs)
    \/ \E rhs \in PredefinedOperands(argT.value) : TestCall(rhs)

SpecPredefined == InitPredefined /\ [][NextPredefined]_vars

\* ------------------------------------------------------ narrowed views
\* NewSlice(slice)
NewSliceCall ==
    /\ pc = "idle"
    /\ op' = "NewSlice"
    /\ view' = [s |-> NewSlice(slice), offset |-> 0, n |-> 0]
    /\ pc' = "view"
    /\ UNCHANGED <<slice, input, fns, oracle, arg, sel, piv, srt, par, srch, cmp, result, argT, desc>>

\* s = s.Slice(i, j): reflect.Value.Slice panics unless 0 <= i <= j <= cap.
SliceCall(i, j) ==
    /\ pc = "view"
    /\ view.n < MaxChain
    /\ op' = "Slice"
    /\ arg' = <<i, j>>
    /\ input' = slice
    /\ IF 0 <= i /\ i <= j /\ j <= view.s.cap
       THEN /\ view' = [s |-> SliceOf(view.s, i, j), offset |-> view.offset + i, n |-> view.n + 1]
            /\ UNCHANGED pc
       ELSE /\ pc' = "panic"
            /\ UNCHANGED view
    /\ UNCHANGED <<slice, fns, oracle, sel, piv, srt, par, srch, cmp, result, argT, desc>>

\* s = s.Slice3(i, j, k): reflect.Value.Slice3 panics unless
\* 0 <= i <= j <= k <= cap.
Slice3Call(i, j, k) ==
    /\ pc = "view"
    /\ view.n < MaxChain
    /\ op' = "Slice3"
    /\ arg' = <<i, j, k>>
    /\ input' = slice
    /\ IF 0 <= i /\ i <= j /\ j <= k /\ k <= view.s.cap
       THEN /\ view' = [s |-> Slice3Of(view.s, i, j, k), offset |-> view.offset + i, n |-> view.n + 1]
            /\ UNCHANGED pc
       ELSE /\ pc' = "panic"
            /\ UNCHANGED view
    /\ UNCHANGED <<slice, fns, oracle, sel, piv, srt, par, srch, cmp, result, argT, desc>>

\* s.Index(i): reflect.Value.Index panics outside [0, len).
IndexCall(i) ==
    /\ pc = "view"
    /\ op' = "Index"
    /\ arg' = <<i>>
    /\ input' = slice
    /\ IF indexInRange(i, view.s.len)
       THEN /\ result' = Index(slice, view.s, i)
            /\ pc' = "done"
       ELSE /\ pc' = "panic"
            /\ UNCHANGED result
    /\ UNCHANGED <<slice, fns, oracle, sel, piv, srt, par, srch, cmp, argT, desc, view>>

\* s.Swap(i, j): the swap function of reflect.Swapper panics outside the slice
\* that NewSlice was handed.
SwapCall(i, j) ==
    /\ pc = "view"
    /\ op' = "Swap"
    /\ arg' = <<i, j>>
    /\ input' = slice
    /\ IF /\ indexInRange(i + view.s.swapOffset, Len(slice))
          /\ indexInRange(j + view.s.swapOffset, Len(slice))
       THEN /\ slice' = Swap(slice, view.s, i, j)
            /\ pc' = "done"
       ELSE /\ pc' = "panic"
            /\ UNCHANGED slice
    /\ UNCHANGED <<fns, oracle, sel, piv, srt, par, srch, cmp, result, argT, desc, view>>

\* The slices views are made of: every position holds another element.
SliceInputs == {[i \in 1..n |-> i - 1] : n \in 0..MaxLen}

InitSlice == \E sl \in SliceInputs : Idle(sl, <<>>)

NextSlice ==
    \/ NewSliceCall
    \/ \E i \in 0..view.s.cap, j \in 0..view.s.cap : SliceCall(i, j)
    \/ \E i \in 0..view.s.cap, j \in 0..view.s.cap, k \in 0..view.s.cap : Slice3Call(i, j, k)
    \/ \E i \in 0..view.s.len : IndexCall(i)
    \/ \E i \in 0..view.s.len, j \in 0..view.s.len : SwapCall(i, j)

SpecSlice == InitSlice /\ [][NextSlice]_vars

\* ----------------------------------------------------------------- By
\* The parameter types of the functions handed to By.
ParamTypes == {IntType, <<"ptr", "int">>, <<"int8">>, <<"slice", "int">>}

\* The values handed to By: functions of two parameters and an int result,
\* functions of another number of parameters, functions of other results, and
\* a value that is no function.
FuncValues ==
    {Func("ints", <<a, b>>, <<IntType>>) : a \in ParamTypes, b \in ParamTypes}
    \cup {Func("ints", in, <<IntType>>) : in \in {<<>>, <<IntType>>, <<IntType, IntType, IntType>>}}
    \cup {Func("ints", <<IntType, IntType>>, out) :
            out \in {<<>>, <<<<"string">>>>, <<<<"int64">>>>, <<IntType, IntType>>}}
    \cup {NotAFunc}

\* By(funs...)
ByCall(funs) ==
    /\ pc = "idle"
    /\ op' = "By"
    /\ arg' = funs
    /\ LET r == By(funs)
       IN  IF r.ok
           THEN /\ fns' = r.fns
                /\ pc' = "done"
           ELSE /\ pc' = "panic"
                /\ UNCHANGED fns
    /\ UNCHANGED <<slice, input, oracle, sel, piv, srt, par, srch, cmp, result, argT, desc, view>>

\* Fns.Reversed, called on the list that By returned.
ReversedOfBy ==
    /\ pc = "done"
    /\ op \in {"By", "Reversed"}
    /\ \A i \in 1..Len(fns) : fns[i].rev < MaxRev
    /\ op' = "Reversed"
    /\ fns' = Reversed(fns)
    /\ UNCHANGED <<slice, input, oracle, pc, arg, sel, piv, srt, par, srch, cmp, result>>
    /\ UNCHANGED <<argT, desc, view>>

InitBy == Idle(<<>>, <<>>)

NextBy ==
    \/ \E funs \in SeqsUpTo(FuncValues, MaxFns) : ByCall(funs)
    \/ ReversedOfBy

SpecBy == InitBy /\ [][NextBy]_vars

\* ------------------------------------------------------ type descriptors
RECURSIVE PtrChains(_, _)
\* The types of S behind at most n pointers.
PtrChains(S, n) ==
    IF n = 0 THEN S ELSE S \cup {PtrTo(tp) : tp \in PtrChains(S, n - 1)}

\* The types callers build descriptors of and offer to them: the named types,
\* []byte, []int and []*byte, and pointers to them.
SomeSlices == {SliceType(<<"uint8">>), SliceType(<<"int">>), SliceType(<<"ptr", "uint8">>)}
AllTypes == PtrChains({<<n>> : n \in Names} \cup SomeSlices, MaxPtr)

\* What lies behind the pointers of the values of a type: numbers at the ends of
\* the range of the narrow types, one value of every other type.
Payloads(tp) ==
    LET leaf == tp[Len(tp)]
    IN  IF leaf = "int8" THEN {-1, 127}
        ELSE IF leaf = "int16" THEN {-1, 32767}
        ELSE IF leaf \in {"int", "int64"} THEN {-1, 70000}
        ELSE IF leaf = "uint8" THEN {255}
        ELSE IF leaf = "uint16" THEN {65535}
        ELSE {1}

AllValues == {MkValue(tp, x) : tp \in AllTypes, x \in {-1, 1, 127, 255, 32767, 65535, 70000}}
TypedValues == {v \in AllValues : v.val \in Payloads(v.type)}

\* reflectutil.New(tp)
NewCall(tp) ==
    /\ pc = "idle"
    /\ op' = "New"
    /\ arg' = tp
    /\ desc' = New(tp)
    /\ pc' = IF New(tp).ok THEN "typed" ELSE "error"
    /\ UNCHANGED <<slice, input, fns, oracle, sel, piv, srt, par, srch, cmp, result, argT, view>>

\* T.Check(tp) on the descriptor New returned
CheckCall(tp) ==
    /\ pc = "typed"
    /\ op' = "Check"
    /\ arg' = tp
    /\ result' = Check(desc.t, tp)
    /\ pc' = "done"
    /\ UNCHANGED <<slice, input, fns, oracle, sel, piv, srt, par, srch, cmp, argT, desc, view>>

\* T.Convert(v) on the descriptor New returned
ConvertCall(v) ==
    /\ pc = "typed"
    /\ op' = "Convert"
    /\ arg' = v
    /\ LET r == Convert(desc.t, v)
       IN  IF r.ok
           THEN /\ result' = r.v
                /\ pc' = "done"
           ELSE /\ pc' = "panic"
                /\ UNCHANGED result
    /\ UNCHANGED <<slice, input, fns, oracle, sel, piv, srt, par, srch, cmp, argT, desc, view>>

InitTypes == Idle(<<>>, <<>>)

NextTypes ==
    \/ \E tp \in AllTypes : NewCall(tp)
    \/ \E tp \in AllTypes : CheckCall(tp)
    \/ \E v \in TypedValues : ConvertCall(v)

SpecTypes == InitTypes /\ [][NextTypes]_vars

\* ------------------------------------------------- properties of Select
\* fs is a total preorder on the elements: a compares equal to a, swapping the
\* operands swaps the sign, and <= is transitive.
IsTotalPreorder(fs) ==
    /\ \A a \in Vals : compare(fs, a, a) = 0
    /\ \A a, b \in Vals : Sign(compare(fs, a, b)) = -Sign(compare(fs, b, a))
    /\ \A a, b, c \in Vals :
         (compare(fs, a, b) <= 0 /\ compare(fs, b, c) <= 0) => compare(fs, a, c) <= 0

\* Number of positions of sl that hold v.
Count(sl, v) == Cardinality({i \in 1..Len(sl) : sl[i] = v})

\* a and b hold the same elements, each as many times.
IsPermutation(a, b) == Len(a) = Len(b) /\ \A v \in Vals : Count(a, v) = Count(b, v)

\* x can stand at Go index k of an ascending sort of sl under fs: fewer than k+1
\* elements are below x, and more than k elements are not above it.
IsKthOf(fs, sl, k, x) ==
    /\ \E i \in 1..Len(sl) : sl[i] = x
    /\ Cardinality({i \in 1..Len(sl) : compare(fs, sl[i], x) < 0}) <= k
    /\ Cardinality({i \in 1..Len(sl) : compare(fs, sl[i], x) <= 0}) > k

\* C1: when Select(s, k) has returned under a total preorder, s[k] is the element
\* at index k of the ascending sort of the multiset Select was given, nothing
\* before index k compares greater than s[k] and nothing after it compares less.
C1_SelectPlacesKth ==
    (op = "Select" /\ pc = "done" /\ IsTotalPreorder(fns)) =>
        LET k == arg
            x == slice[k + 1]
        IN  /\ IsKthOf(fns, input, k, x)
            /\ \A i \in 1..Len(slice) :
                 /\ (i - 1 < k) => compare(fns, slice[i], x) <= 0
                 /\ (i - 1 > k) => compare(fns, slice[i], x) >= 0

\* Select has returned on a slice of more than five elements, some of them
\* comparing equal, that it had to rearrange.
C1_Witness ==
    /\ op = "Select"
    /\ pc = "done"
    /\ IsTotalPreorder(fns)
    /\ Len(input) > size
    /\ slice # input
    /\ arg = 3
    /\ \E i \in 1..Len(slice) : i # arg + 1 /\ compare(fns, slice[i], slice[arg + 1]) = 0

\* C2: in every state of Select, after each swap and at return, the slice is a
\* permutation of the slice Select was given.
C2_SelectPermutes == (op = "Select") => IsPermutation(slice, input)

\* Select is in the middle of partition's scan and has moved elements.
C2_Witness ==
    /\ op = "Select"
    /\ pc = "scan"
    /\ par.cursor > 0
    /\ par.i < sel.s.len - 1
    /\ slice # input
    /\ Len(input) > size

\* C3: Select(s, k) with k < 0 or k >= len(s) panics, and no element of s has
\* been moved.
C3_SelectOutOfBounds ==
    (op = "Select" /\ (arg < 0 \/ arg >= Len(input))) => (pc = "panic" /\ slice = input)

\* Select has panicked on k = len(s) of a slice that is not empty.
C3_Witness == op = "Select" /\ pc = "panic" /\ arg = Len(input) /\ Len(input) > 0

\* Round of Select that does not return: the window it continues on is shorter.
RoundShrinks == (pc = "scan" /\ pc' = "pivot") => sel'.s.len < sel.s.len

\* Pass of pivot over a window of n > 5 elements: it continues on ceil(n/5)
\* elements; pivot returns only from a window of at most 5.
PivotShrinks ==
    /\ (pc = "group" /\ pc' = "pivot") =>
          /\ piv.s.len > size
          /\ piv'.s.len = (piv.s.len + size - 1) \div size
          /\ piv'.s.len < piv.s.len
    /\ (pc = "pivot" /\ pc' = "group") => piv.s.len > size
    /\ (pc \in {"pivot", "pivot_median"} /\ pc' = "partition") => piv.s.len <= size

\* C7: Select terminates whatever the comparison functions return: every round
\* that does not return goes on with a strictly shorter window, every pass of
\* pivot shrinks its window from n > 5 to ceil(n/5), and the call ends.
C7_SelectTerminates ==
    /\ <>(pc \in {"done", "panic"})
    /\ [][RoundShrinks]_vars
    /\ [][PivotShrinks]_vars

\* Select has returned from a slice of more than five elements under functions
\* that follow no order, after more than one round.
C7_Witness ==
    /\ op = "Select"
    /\ pc = "done"
    /\ UsesAny(fns)
    /\ Len(input) > size
    /\ sel.s.len < Len(input)
\* ------------------------------------- properties of Search and the scans
\* sl is ascending under fs: no element compares greater than its successor.
IsAscending(fs, sl) == \A i \in 1..(Len(sl) - 1) : compare(fs, sl[i], sl[i + 1]) <= 0

\* Some element of sl compares equal to v.
Holds(fs, sl, v) == \E i \in 1..Len(sl) : compare(fs, sl[i], v) = 0

\* C4: on an ascending slice that holds an element equal to v, Search returns
\* an index i with 0 <= i < len(s) and compare(s[i], v) = 0; on the way it reads
\* no index outside the slice and each round works on a new, non-empty range.
C4_SearchFinds ==
    (op = "Search" /\ IsTotalPreorder(fns) /\ IsAscending(fns, input) /\ Holds(fns, input, arg)) =>
        /\ pc # "panic"
        /\ (pc = "search") => (srch.start <= srch.end /\ <<srch.start, srch.end>> \notin srch.seen)
        /\ (pc = "done") =>
              /\ 0 <= result /\ result < Len(input)
              /\ compare(fns, input[result + 1], arg) = 0

\* Search has found the value in its third round, in a slice of more than four
\* elements with equal neighbours.
C4_Witness ==
    /\ op = "Search"
    /\ pc = "done"
    /\ IsTotalPreorder(fns)
    /\ IsAscending(fns, input)
    /\ Len(input) > 4
    /\ Cardinality(srch.seen) >= 2
    /\ result >= 0
    /\ \E i \in 1..(Len(input) - 1) : compare(fns, input[i], input[i + 1]) = 0

\* C5: on an ascending slice that holds no element equal to v, Search returns -1.
C5_SearchNotFound ==
    (op = "Search" /\ IsTotalPreorder(fns) /\ IsAscending(fns, input) /\ ~Holds(fns, input, arg)
        /\ pc # "search") =>
        (pc = "done" /\ result = -1)

\* C6: on an ascending slice the loop of Search never comes back to a range
\* (start, end) it has worked on before.
C6_SearchNeverRevisits ==
    (op = "Search" /\ IsTotalPreorder(fns) /\ IsAscending(fns, input) /\ pc = "search") =>
        <<srch.start, srch.end>> \notin srch.seen

\* Go index i holds a least element of sl, and no index before it does.
IsFirstMin(fs, sl, i) ==
    /\ \A j \in 1..Len(sl) : compare(fs, sl[i + 1], sl[j]) <= 0
    /\ \A h \in 1..i : \E j \in 1..Len(sl) : compare(fs, sl[h], sl[j]) > 0

\* Go index i holds a greatest element of sl, and no index before it does.
IsFirstMax(fs, sl, i) ==
    /\ \A j \in 1..Len(sl) : compare(fs, sl[i + 1], sl[j]) >= 0
    /\ \A h \in 1..i : \E j \in 1..Len(sl) : compare(fs, sl[h], sl[j]) < 0

\* C8: MinMax returns the first index of a least element and the first index of
\* a greatest element of a slice that is not empty, and (-1, -1) for an empty one.
C8_MinMaxFirst ==
    (op = "MinMax" /\ pc = "done" /\ IsTotalPreorder(fns)) =>
        IF Len(input) = 0
        THEN result = <<-1, -1>>
        ELSE /\ result[1] \in 0..(Len(input) - 1)
             /\ result[2] \in 0..(Len(input) - 1)
             /\ IsFirstMin(fns, input, result[1])
             /\ IsFirstMax(fns, input, result[2])

\* MinMax has returned indices other than 0 from a slice in which the least and
\* the greatest element both occur again later.
C8_Witness ==
    /\ op = "MinMax"
    /\ pc = "done"
    /\ IsTotalPreorder(fns)
    /\ Len(input) > 0
    /\ result[1] > 0
    /\ result[2] > 0
    /\ \E j \in 1..Len(input) : j - 1 > result[1] /\ compare(fns, input[j], input[result[1] + 1]) = 0
    /\ \E j \in 1..Len(input) : j - 1 > result[2] /\ compare(fns, input[j], input[result[2] + 1]) = 0

\* C9: IsSorted is true exactly when no element compares greater than its
\* successor, IsStrictSorted exactly when every element compares less than its
\* successor; both are true of 0 and 1 elements, and IsStrictSorted implies
\* IsSorted.
C9_IsSortedExact ==
    (op \in {"IsSorted", "IsStrictSorted"} /\ pc = "done") =>
        /\ (op = "IsSorted") =>
              (result <=> \A i \in 1..(Len(input) - 1) : compare(fns, input[i], input[i + 1]) <= 0)
        /\ (op = "IsStrictSorted") =>
              (result <=> \A i \in 1..(Len(input) - 1) : compare(fns, input[i], input[i + 1]) < 0)
        /\ (Len(input) <= 1) => result
        /\ isSorted(fns, input, TRUE) => isSorted(fns, input, FALSE)

\* IsSorted has returned true for a slice with two equal neighbours, for which
\* IsStrictSorted is false.
C9_Witness ==
    /\ op = "IsSorted"
    /\ pc = "done"
    /\ result
    /\ Len(input) >= 3
    /\ ~isSorted(fns, input, TRUE)
    /\ \E i \in 1..(Len(input) - 1) : compare(fns, input[i], input[i + 1]) < 0

\* C10: compare(a, b) is the result of the first function of the list that does
\* not return zero, and zero only if every function returns zero.
C10_CompareFirstNonZero ==
    (op = "compare" /\ pc = "done") =>
        LET r(i) == FnCall(fns[i], cmp.lhs, cmp.rhs)
        IN  IF \A i \in 1..Len(fns) : r(i) = 0
            THEN result = 0
            ELSE \E i \in 1..Len(fns) :
                    /\ r(i) # 0
                    /\ \A j \in 1..(i - 1) : r(j) = 0
                    /\ result = r(i)

\* compare has returned the result of the first of two functions that disagree
\* about the operands (different names, and ages in the other order).
C10_Witness ==
    /\ op = "compare"
    /\ pc = "done"
    /\ Len(fns) = 2
    /\ FnCall(fns[1], cmp.lhs, cmp.rhs) < 0
    /\ FnCall(fns[2], cmp.lhs, cmp.rhs) > 0
    /\ result < 0

\* ------------------------------------------------ properties of Reversed
\* C11: whatever integer a compare function returns, compare of the reversed
\* function list is the negation of compare of the list itself, and so has the
\* opposite sign.
C11_ReversedNegates ==
    (op = "compare" /\ pc = "done") =>
        LET r == compare(Reversed(fns), cmp.lhs, cmp.rhs)
        IN  /\ r = -result
            /\ Sign(r) = -Sign(result)

\* ---------------------------------------- properties of type descriptors
RECURSIVE StripPtr(_)
\* The type behind all the pointers of tp.
StripPtr(tp) == IF Head(tp) = "ptr" THEN StripPtr(Tail(tp)) ELSE tp

\* The number of pointers in front of tp.
PtrDepth(tp) == Len(tp) - Len(StripPtr(tp))

RECURSIVE Pointers(_, _)
\* The type of d pointers over tp.
Pointers(tp, d) == IF d = 0 THEN tp ELSE PtrTo(Pointers(tp, d - 1))

\* The four categories of numeric types; "" for every other type.
Category(tp) ==
    IF Len(tp) # 1 THEN ""
    ELSE IF Head(tp) \in {"int8", "int16", "int64", "int"} THEN "signed"
    ELSE IF Head(tp) \in {"uint8", "uint16", "uint64"} THEN "unsigned"
    ELSE IF Head(tp) \in {"float32", "float64"} THEN "float"
    ELSE IF Head(tp) \in {"complex64", "complex128"} THEN "complex"
    ELSE ""

\* The width in bits of the numeric types.
Width(tp) ==
    CASE Head(tp) \in {"int8", "uint8"} -> 8
      [] Head(tp) \in {"int16", "uint16"} -> 16
      [] Head(tp) = "float32" -> 32
      [] Head(tp) \in {"int", "int64", "uint64", "float64", "complex64"} -> 64
      [] Head(tp) = "complex128" -> 128

\* A call of Check or Convert on a descriptor of the plain type dst has returned
\* or panicked.
Offered(o, dst) ==
    /\ op = o
    /\ pc \in {"done", "panic"}
    /\ desc.t = MkT(dst, 0)

\* C14: between two types of one numeric category Check accepts, and Convert
\* succeeds, exactly when the candidate is not wider than the type of the
\* descriptor; the converted value has the descriptor's type and the same number.
C14_WidthRule ==
    \A dst \in AllTypes :
        /\ (Offered("Check", dst) /\ Category(dst) # "" /\ Category(arg) = Category(dst))
              => (result = (Width(arg) <= Width(dst)))
        /\ (Offered("Convert", dst) /\ Category(dst) # "" /\ Category(arg.type) = Category(dst))
              => /\ (pc = "done") = (Width(arg.type) <= Width(dst))
                 /\ pc = "done" => result = MkValue(dst, arg.val)

C14_Witness ==
    /\ Offered("Convert", <<"int64">>)
    /\ arg = MkValue(<<"int8">>, 127)
    /\ result = MkValue(<<"int64">>, 127)

\* C15: Check accepts a numeric type of another kind only if it is of the same
\* category as the type of the descriptor.
C15_CategoriesApart ==
    \A dst \in AllTypes :
        (/\ Offered("Check", dst)
         /\ Category(dst) # ""
         /\ Category(arg) # ""
         /\ Kind(arg) # Kind(dst)
         /\ result = TRUE)
            => Category(arg) = Category(dst)

\* C16: a descriptor of d pointers over B accepts every pointer chain over B,
\* and converts a value of it to d pointers over B with the same value behind
\* them.
C16_PointerChains ==
    (desc.ok /\ pc \in {"done", "panic"}) =>
        /\ (op = "Check" /\ StripPtr(arg) = desc.t.Type) => result = TRUE
        /\ (op = "Convert" /\ StripPtr(arg.type) = desc.t.Type)
              => /\ pc = "done"
                 /\ result = MkValue(Pointers(desc.t.Type, desc.t.ptrCount), arg.val)

C16_Witness ==
    /\ op = "Convert"
    /\ pc = "done"
    /\ desc.t = MkT(<<"t1">>, 2)
    /\ arg.type = <<"ptr", "t1">>
    /\ result.type = <<"ptr", "ptr", "t1">>

\* The types New builds no descriptor of.
Unsupported(tp) ==
    \/ Kind(tp) \in {"array", "map", "func"}
    \/ Kind(tp) = "slice" /\ Elem(tp) # <<"uint8">>

\* C17: New fails exactly for the arrays, maps, functions and slices of
\* anything but bytes, also behind pointers; the descriptor it returns holds
\* the type behind all pointers and their number, and that type is no pointer
\* and none of the unsupported types.
C17_NewStripsPointers ==
    /\ op = "New" => desc.ok = ~Unsupported(StripPtr(arg))
    /\ (op = "New" /\ desc.ok) => desc.t = MkT(StripPtr(arg), PtrDepth(arg))
    /\ desc.ok => Kind(desc.t.Type) # "ptr" /\ ~Unsupported(desc.t.Type)

C17_Witness ==
    /\ op = "New"
    /\ arg = <<"ptr", "ptr", "slice", "uint8">>
    /\ desc = [ok |-> TRUE, t |-> MkT(<<"slice", "uint8">>, 2)]

\* ------------------------------------------------------ properties of By
\* The descriptor of the first parameter of the function fun.
ParamT(fun) == New(fun.in[1]).t

\* Function i of the list handed to By has a first parameter whose type the
\* descriptor of the first function's parameter does not accept.
Mismatch(funs, i) ==
    /\ Len(funs[1].in) > 0
    /\ New(funs[1].in[1]).ok
    /\ Len(funs[i].in) > 0
    /\ ~Check(ParamT(funs[1]), funs[i].in[1])

\* C12: By panics when it is handed no function, and when the parameter type
\* of a later function fails Check against the type of the first; the list it
\* returns has the type of the first function's parameter.
C12_ByChecksTypes ==
    op = "By" =>
        /\ Len(arg) = 0 => pc = "panic"
        /\ (\E i \in 2..Len(arg) : Mismatch(arg, i)) => pc = "panic"
        /\ pc = "done" => /\ fns[1].t = ParamT(arg[1])
                          /\ FnsT(fns) = StripPtr(arg[1].in[1])

C12_Witness ==
    /\ op = "By"
    /\ pc = "panic"
    /\ arg = <<Func("ints", <<<<"int8">>, <<"int8">>>>, <<IntType>>),
               Func("ints", <<IntType, IntType>>, <<IntType>>)>>

\* C13: every function of a list that By accepted has exactly two parameters
\* of one descriptor (the same type behind the same number of pointers) and
\* exactly one result, of kind int.
C13_BySignatures ==
    (op = "By" /\ pc = "done") =>
        \A i \in 1..Len(arg) :
            /\ arg[i].isFunc
            /\ Len(arg[i].in) = 2
            /\ New(arg[i].in[1]).t = New(arg[i].in[2]).t
            /\ Len(arg[i].out) = 1
            /\ Kind(arg[i].out[1]) = "int"

\* C24: the list By returns is not empty and all its functions have the
\* descriptor of the first (the same type behind the same number of
\* pointers); Reversed returns a list of the same length with the same
\* descriptors.
C24_OneDescriptor ==
    /\ (op = "By" /\ pc = "done") =>
            /\ Len(fns) > 0
            /\ \A i \in 1..Len(fns) : fns[i].t = fns[1].t
    /\ op = "Reversed" =>
            /\ Len(fns) = Len(By(arg).fns)
            /\ \A i \in 1..Len(fns) : fns[i].t = By(arg).fns[i].t

\* ------------------------------------------- properties of narrowed views
\* The storage sl with the elements at the Go indexes a and b exchanged.
Exchanged(sl, a, b) ==
    [p \in 1..Len(sl) |-> IF p = a + 1 THEN sl[b + 1] ELSE IF p = b + 1 THEN sl[a + 1] ELSE sl[p]]

\* C18: on a view narrowed any number of times, Index(i) reads the storage at
\* i plus the sum of the lower bounds, Swap(i, j) exchanges the storage at i
\* and j plus that sum and nothing else, and a narrowing changes no element.
C18_NarrowedViews ==
    /\ (op = "Index" /\ pc = "done")
          => /\ indexInRange(arg[1] + view.offset, Len(slice))
             /\ result = slice[arg[1] + view.offset + 1]
    /\ (op = "Swap" /\ pc = "done")
          => /\ indexInRange(arg[1] + view.offset, Len(input))
             /\ indexInRange(arg[2] + view.offset, Len(input))
             /\ slice = Exchanged(input, arg[1] + view.offset, arg[2] + view.offset)
    /\ op \in {"Slice", "Slice3"} => slice = input

C18_Witness ==
    /\ op = "Swap"
    /\ pc = "done"
    /\ view.n = 3
    /\ view.offset = 3
    /\ view.s.len = 2
    /\ view.s.cap = 2
    /\ arg = <<0, 1>>
    /\ slice = <<0, 1, 2, 4, 3, 5>>

\* ------------------------------------------------ properties of Condition
Tests == {"Equal", "NotEqual", "Greater", "GreaterEqual", "Less", "LessEqual"}

\* How many of the truth values in the sequence bs are true.
Trues(bs) == Cardinality({i \in 1..Len(bs) : bs[i]})

\* C19: with c the result of compare(lhs, rhs), Equal returns c = 0, NotEqual
\* c # 0, Greater c > 0, GreaterEqual c >= 0, Less c < 0 and LessEqual c <= 0;
\* so exactly one of Less, Equal and Greater holds of lhs and rhs, and
\* NotEqual, GreaterEqual and LessEqual hold exactly when Equal, Less and
\* Greater do not.
C19_ConditionTests ==
    (op \in Tests /\ pc = "done") =>
        LET c == compare(fns, cmp.lhs, cmp.rhs)
            l == cmp.lhs
            r == cmp.rhs
        IN  /\ op = "Equal" => result = (c = 0)
            /\ op = "NotEqual" => result = (c # 0)
            /\ op = "Greater" => result = (c > 0)
            /\ op = "GreaterEqual" => result = (c >= 0)
            /\ op = "Less" => result = (c < 0)
            /\ op = "LessEqual" => result = (c <= 0)
            /\ Trues(<<Less(fns, l, r), Equal(fns, l, r), Greater(fns, l, r)>>) = 1
            /\ NotEqual(fns, l, r) = ~Equal(fns, l, r)
            /\ GreaterEqual(fns, l, r) = ~Less(fns, l, r)
            /\ LessEqual(fns, l, r) = ~Greater(fns, l, r)

C19_Witness ==
    /\ op = "Greater"
    /\ pc = "done"
    /\ Len(fns) = 2
    /\ FnCall(fns[1], cmp.lhs, cmp.rhs) = 0
    /\ cmp.lhs = cmp.rhs
    /\ result = FALSE

\* ---------------------------------------- properties of argument checks
\* The value of type tp is a slice, or a pointer to one.
IsSequence(tp) == Head(StripPtr(tp)) = "slice"

\* The type of the elements of such a value.
ElemType(tp) == Tail(StripPtr(tp))

SliceOps == {"Sort", "SortStable", "Search", "MinMax", "IsSorted", "IsStrictSorted", "Select"}

\* The operation has panicked and has neither compared nor moved anything.
Rejected ==
    /\ pc = "panic"
    /\ slice = input
    /\ result = <<>>
    /\ sel = NoSel /\ piv = NoPiv /\ srt = NoSrt /\ par = NoPar /\ srch = NoSrch

\* C20: an operation panics before it compares anything when an argument has
\* a type that fails Check of the function list's descriptor: the left-hand
\* side of Is, the right-hand side of the six tests, the slice of the slice
\* operations when it is no slice or its elements have such a type, and the
\* value of Search, also when the slice is empty.
C20_ArgumentsChecked ==
    LET T == fns[1].t
        badSlice == ~IsSequence(argT.slice) \/ ~Check(T, ElemType(argT.slice))
        badValue == ~Check(T, argT.value)
        badLhs == ~Check(T, argT.lhs)
    IN  /\ (op \in SliceOps /\ badSlice) => Rejected
        /\ (op = "Search" /\ badValue) => Rejected
        /\ (op = "Is" /\ badLhs) => Rejected /\ cmp = NoCmp
        /\ (op \in Tests /\ badValue) => Rejected /\ cmp.rhs = NoCmp.rhs

C20_Witness ==
    /\ op = "Search"
    /\ pc = "panic"
    /\ slice = <<>>
    /\ IsSequence(argT.slice)
    /\ Check(fns[1].t, ElemType(argT.slice))
    /\ ~Check(fns[1].t, argT.value)

\* --------------------------------------------- properties of the rounds
\* C21: a round of Select that does not return goes on with a window of at
\* most 7/10 of the elements of its window, and 6 more, whatever the input
\* and k.
C21_RoundDiscardsFraction ==
    [][(pc = "scan" /\ pc' = "pivot") => 10 * sel'.s.len <= 7 * sel.s.len + 60]_vars


\* ------------------------------- properties of the package-level functions
\* The type has a method named Compare: it is a named type with such a method,
\* or a pointer to one.
HasCompare(tp) ==
    \/ Len(tp) = 1 /\ tp[1] \in DOMAIN CompareMethods
    \/ Len(tp) = 2 /\ tp[1] = "ptr" /\ tp[2] \in DOMAIN CompareMethods

\* The method Compare of such a type takes a value of the type and returns an
\* int.
ValidCompare(tp) ==
    LET method == CompareMethods[tp[Len(tp)]]
    IN  method.in = << <<tp[Len(tp)]>> >> /\ method.out = <<IntType>>

\* The built-in comparators in their order, by name and by type.
Builtins == <<"int64", "uint64", "string", "bytes", "bool", "time">>
BuiltinType(i) ==
    << <<"int64">>, <<"uint64">>, <<"string">>, SliceType(<<"uint8">>), <<"bool">>,
       <<"time.Time">> >>[i]

\* The built-in comparators whose Check accepts the type.
Accepting(tp) == {i \in 1..Len(Builtins) : Check(MkT(BuiltinType(i), 0), tp)}

\* The least number of a set of numbers.
Least(S) == CHOOSE i \in S : \A j \in S : i <= j

\* The type a package-level function looks the comparator up for: the type of
\* the value of Is, the type of the elements of the slice of all others.
Subject(name) == IF name = "Is" THEN argT.lhs ELSE ElemType(argT.slice)

\* The comparator fs found for the type tp and the place at is what the order
\* of the resolver says.
ResolvedAs(tp, at, fs) ==
    IF HasCompare(tp)
    THEN IF ValidCompare(tp)
         THEN /\ at = "resolved"
              /\ Len(fs) = 1
              /\ fs[1].f = CompareMethods[tp[Len(tp)]].f
              /\ fs[1].rev = 0
         ELSE at = "panic"
    ELSE IF Accepting(tp) # {}
         THEN /\ at = "resolved"
              /\ Len(fs) = 1
              /\ fs[1].f = Builtins[Least(Accepting(tp))]
              /\ fs[1].rev = 0
         ELSE at = "panic"

ChecksPassed ==
    LET T == fns[1].t
    IN  /\ op \in SliceOps => IsSequence(argT.slice) /\ Check(T, ElemType(argT.slice))
        /\ op = "Search" => Check(T, argT.value)
        /\ op = "Select" => 0 <= arg /\ arg < Len(input)
        /\ op = "Is" => Check(T, argT.lhs)
        /\ op \in Tests => Check(T, argT.lhs) /\ Check(T, argT.value)

\* C23: an operation of a function list that By returned panics only when one
\* of its argument checks fails, never later (not in the conversion of a
\* function after the first either), and an operation that has panicked has
\* left the slice as it was.
C23_ValidateThenExecute ==
    pc = "panic" => ~ChecksPassed /\ slice = input


\* ---------------------------------------------- properties of partition
\* The elements of sl outside the window s.
Outside(sl, s) == [i \in 1..Len(sl) |-> IF i > s.lo /\ i <= s.lo + s.len THEN 0 ELSE sl[i]]

\* C25: partition(s, p) of a window s of n > 0 elements and 0 <= p < n permutes
\* the window and returns a cursor c with s[c] the element that was at p, all
\* elements before c strictly less than it and all elements after c greater
\* than or equal to it; c is the number of elements strictly less than it.
C25_Partition ==
    (op = "partition" /\ pc = "done" /\ IsTotalPreorder(fns)) =>
        LET s == sel.s
            c == result
            pivot == Index(input, s, arg)
        IN  /\ IsPermutation(slice, input)
            /\ Outside(slice, s) = Outside(input, s)
            /\ indexInRange(c, s.len)
            /\ Index(slice, s, c) = pivot
            /\ \A i \in 0..(s.len - 1) :
                    /\ i < c => compare(fns, Index(slice, s, i), pivot) < 0
                    /\ i > c => compare(fns, Index(slice, s, i), pivot) >= 0
            /\ c = Cardinality({i \in 0..(s.len - 1) : compare(fns, Index(input, s, i), pivot) < 0})

\* partition has returned a cursor inside a window that is a part of the
\* slice, for a pivot that was not at the front.
C25_Witness ==
    /\ op = "partition"
    /\ pc = "done"
    /\ IsTotalPreorder(fns)
    /\ sel.s.lo = 1 /\ sel.s.len = 4 /\ Len(slice) = 6
    /\ arg = 2
    /\ result = 1
    /\ slice # input


\* -------------------------------------------------- properties of pivot
\* The elements of the window s of the storage sl, as a list.
Window(sl, s) == [i \in 1..s.len |-> Index(sl, s, i - 1)]

\* The place of element i of the list l in its stable ascending sort, from 0.
Rank(fs, l, i) ==
    Cardinality({j \in 1..Len(l) :
        \/ compare(fs, l[j], l[i]) < 0
        \/ compare(fs, l[j], l[i]) = 0 /\ j < i})

\* The lower median of the list l of g elements: the element at index
\* floor((g-1)/2) of its sort.
LowerMedian(fs, l) == l[CHOOSE i \in 1..Len(l) : Rank(fs, l, i) = (Len(l) - 1) \div 2]

\* The lower medians of the consecutive groups of up to five elements of l.
Medians(fs, l) ==
    [g \in 1..((Len(l) + 4) \div 5) |->
        LowerMedian(fs, SubSeq(l, 5 * (g - 1) + 1, minInt(5 * g, Len(l))))]

RECURSIVE Reduced(_, _)
\* The median of medians of the list l.
Reduced(fs, l) ==
    IF Len(l) <= 5 THEN LowerMedian(fs, l) ELSE Reduced(fs, Medians(fs, l))

\* b holds the elements of a, each as many times.
SameElements(a, b) ==
    /\ Len(a) = Len(b)
    /\ \A i \in 1..Len(a) : Count(a, a[i]) = Count(b, a[i])

\* C26: pivot(s) only permutes the window s; when it returns, s[0] is the value
\* of this reduction of the window: while more than 5 values remain, the list
\* is replaced by the lower medians of its consecutive groups of up to 5, in
\* the order of the groups; of 5 values or fewer the lower median is taken.
\* After the first pass over the groups the medians stand in the first
\* ceil(n/5) places of the window.
C26_PivotReduction ==
    (op = "pivot" /\ IsTotalPreorder(fns)) =>
        LET s == sel.s
            n == s.len
        IN  /\ SameElements(Window(slice, s), Window(input, s))
            /\ Outside(slice, s) = Outside(input, s)
            /\ (pc = "partition" /\ n > 0) =>
                    Index(slice, s, 0) = Reduced(fns, Window(input, s))
            /\ (pc = "group" /\ piv.s = s /\ ~(piv.left < n)) =>
                    /\ piv.medLen = (n + 4) \div 5
                    /\ SubSeq(Window(slice, s), 1, piv.medLen) = Medians(fns, Window(input, s))

\* pivot has returned from a window of three groups, the last of them of
\* three elements, and has moved elements.
C26_Witness ==
    /\ op = "pivot"
    /\ pc = "partition"
    /\ IsTotalPreorder(fns)
    /\ input = <<5, 4, 2, 3, 1, 10, 9, 8, 7, 6, 15, 14, 13>>
    /\ sel.s.lo = 0 /\ sel.s.len = 13
    /\ Index(slice, sel.s, 0) = 8


\* ------------------------------------- properties of the rounds of Select
\* What holds of the storage sl, the window w and the rank k when a round of
\* Select(l, n) begins: k is an index of the window, which lies k places
\* before index n; nothing left of the window is above an element of it and
\* nothing right of it is below one; an element of rank k of the window is one
\* of rank n of the list l Select was given.
RoundInv(l, n, sl, w, k) ==
    /\ 0 <= k /\ k < w.len
    /\ w.lo + k = n
    /\ w.lo + w.len <= Len(sl)
    /\ \A j \in (w.lo + 1)..(w.lo + w.len) :
            /\ \A i \in 1..w.lo : compare(fns, sl[i], sl[j]) <= 0
            /\ \A i \in (w.lo + w.len + 1)..Len(sl) : compare(fns, sl[i], sl[j]) >= 0
    /\ \A j \in 1..w.len :
            IsKthOf(fns, Window(sl, w), k, Window(sl, w)[j]) => IsKthOf(fns, l, n, Window(sl, w)[j])

\* What the end of a round does with the index p that partition returned.
RoundEnds(s, k, p, at, s1, k1) ==
    /\ p = k => at = "done"
    /\ p < k => /\ at = "pivot"
                /\ s1.lo = s.lo + p + 1
                /\ s1.len = s.len - (p + 1)
                /\ k1 = k - (p + 1)
    /\ p > k => /\ at = "pivot"
                /\ s1.lo = s.lo
                /\ s1.len = p
                /\ k1 = k

\* C27: when a round of Select begins, under a total preorder, 0 <= k <
\* len(window), the elements left of the window are <= and those right of it
\* >= every element of the window, and the element sought has rank k in the
\* window; a round whose partition returned p returns when p = k, goes on
\* with the part after the pivot and k - (p+1) when p < k, and with the part
\* before the pivot and k when p > k.
C27_RoundInvariant ==
    [][/\ (/\ op' = "Select" /\ pc' = "pivot" /\ piv'.s = sel'.s
            /\ pc \in {"idle", "scan"} /\ IsTotalPreorder(fns)) =>
                RoundInv(input', arg', slice', sel'.s, sel'.k)
       /\ (op' = "Select" /\ pc = "scan" /\ pc' \notin {"scan", "panic"}) =>
                RoundEnds(sel.s, sel.k, par.cursor, pc', sel'.s, sel'.k)]_vars

\* A round begins on the part after the pivot of the round before, with more
\* than one element.
C27_Witness ==
    /\ op = "Select"
    /\ pc = "pivot"
    /\ piv.s = sel.s
    /\ IsTotalPreorder(fns)
    /\ sel.s.lo > 0
    /\ sel.k < arg
    /\ sel.s.len > 1


\* ------------------------------------- properties of the range of Search
\* C28: on an ascending slice, whenever the loop of Search begins a round,
\* 0 <= start <= end <= len(s) - 1 and the index i it reads lies in
\* start..end, inside the slice.
C28_SearchInBounds ==
    (op = "Search" /\ IsTotalPreorder(fns) /\ IsAscending(fns, input) /\ pc = "search") =>
        LET i == mid(srch.start, srch.end)
        IN  /\ 0 <= srch.start
            /\ srch.start <= srch.end
            /\ srch.end <= Len(slice) - 1
            /\ srch.start <= i
            /\ i <= srch.end
            /\ indexInRange(i, Len(slice))


\* C29: for every range (start, end) with which the loop of Search begins a
\* round on an ascending slice, int(uint(start+end) >> 1) is the floor of
\* (start + end) / 2.
C29_MidpointIsFloor ==
    (op = "Search" /\ IsTotalPreorder(fns) /\ IsAscending(fns, input) /\ pc = "search") =>
        mid(srch.start, srch.end) = (srch.start + srch.end) \div 2


\* --------------------------- properties of the built-in integer comparators
\* What the test called name says of a and b when it is right.
Relation(name, a, b) ==
    CASE name = "Equal" -> a = b
      [] name = "NotEqual" -> a # b
      [] name = "Greater" -> a > b
      [] name = "GreaterEqual" -> a >= b
      [] name = "Less" -> a < b
      [] name = "LessEqual" -> a <= b

\* C30: the built-in comparators of int64 and uint64 order all values of the
\* type as the integers are ordered: after order.Is(a) of such a value, each
\* of the six tests with b says what the relation of a to b is, also when
\* a - b does not fit in an int.
C30_BuiltinThreeWay ==
    (/\ pc = "done"
     /\ op \in {"Equal", "NotEqual", "Greater", "GreaterEqual", "Less", "LessEqual"}
     /\ argT.lhs \in {<<"int64">>, <<"uint64">>}
     /\ argT.value = argT.lhs
     /\ fns = compareableFn(argT.lhs).fns) =>
        result = Relation(op, cmp.lhs, cmp.rhs)

====
